---- MODULE Spec2Model ----
(***************************************************************************)
(* Behavioural model of the Outline bulk document mover:                   *)
(*   - manager.js: flattenApiDocs, buildTree, filterTopLevelSelected,      *)
(*     moveDocumentRecursively and the UI handlers of initManager;         *)
(*   - utils.js (second half of manager.js): fetchWithTimeout, retryFetch; *)
(*   - storageManager.js: get, set, getSettings, getOutlineAPI.            *)
(* Document ids are modelled as positive integers, the falsy parent values *)
(* (null, undefined, "") as NoParent.                                      *)
(*                                                                         *)
(* Specifications:                                                         *)
(*   Spec           loads of the source tree and one move operation;       *)
(*   SpecReentrant  the same with up to MaxClicks clicks at any time;      *)
(*   SpecLoads      one move operation and changes of the source dropdown  *)
(*                  between two collections;                               *)
(*   SpecDestination  one move operation and the handlers of the           *)
(*                  destination dropdowns;                                 *)
(*   SpecFetch      one retryFetch call over fetchWithTimeout;             *)
(*   SpecApi        one call of a method of OutlineAPI (outlineAPI.js);    *)
(*   SpecApiFair    the same, every pending step is eventually taken;      *)
(*   SpecBuild      flattenApiDocs, buildTree and flattenTree applied to   *)
(*                  a listing;                                             *)
(*   SpecStorage    get, set and getOutlineAPI of storageManager.js, one   *)
(*                  call after the other.                                  *)
(***************************************************************************)
EXTENDS Integers, Sequences, FiniteSets, TLC

\* ---------------------------------------------------------------- bounds
MaxDocs == 3        \* documents held by the source collection
MaxClicks == 2      \* clicks on the Move button
MaxLoads == 1       \* selections of the source collection
MaxChanges == 1     \* further changes of the source dropdown (SpecLoads)
MaxCollections == 55  \* collections held by the service
MaxDestLoads == 2   \* changes of the destination collection dropdown

\* ------------------------------------------------------- program constants
MAX_RETRIES == 3
INITIAL_BACKOFF == 500
limit == 25         \* page size of listCollections
documentsLimit == 1000    \* page size of getCollectionDocuments

Docs == 1..MaxDocs
NoParent == 0
DestFolder == MaxDocs + 1     \* a folder of the destination collection
DestSubFolder == MaxDocs + 2  \* a document below that folder
Clicks == 1..MaxClicks

SourceColl == "S"
DestColl == "X"

\* ------------------------------------------------------------ sequences
Range(s) == {s[i] : i \in 1..Len(s)}

Last(s) == s[Len(s)]

RECURSIVE Pow2(_)
Pow2(n) == IF n = 0 THEN 1 ELSE 2 * Pow2(n - 1)

VARIABLES
    srvParent,          \* remote wiki: parent document of every document
    srvColl,            \* remote wiki: collection of every document
    documentTreeData,   \* manager.js:3, the last built source tree
    loads,              \* getCollectionDocuments calls of the source handlers
    ops,                \* one record per invocation of the Move click handler
    rf,                 \* one retryFetch call
    api,                \* one call of a method of OutlineAPI
    build,              \* one run of flattenApiDocs, buildTree and flattenTree
    documentMap,        \* manager.js:4, the index of the last built tree
    destLoads,          \* getCollectionDocuments calls of the destination handler
    dropdowns,          \* the destination collection, folder and sub-folder selects
    storageManager      \* storageManager.js: the storage areas, cache and instance

destVars == <<documentMap, destLoads, dropdowns>>
moveVarsButStorage == <<srvParent, srvColl, documentTreeData, loads, ops, destVars>>
moveVars == <<moveVarsButStorage, storageManager>>
vars == <<srvParent, srvColl, documentTreeData, loads, ops, rf, api, build,
          documentMap, destLoads, dropdowns, storageManager>>

\* ================================================================ trees
\* A tree is [roots, children]: the array of root documents and, for every
\* document, the ids of its children array in order.
EmptyTree == [roots |-> <<>>, children |-> [d \in Docs |-> <<>>]]

\* A (possibly nested) API listing: top is the data array, kids the children
\* array of each entry, pid the parentDocumentId field of each entry.
Doc(id, pid) == [id |-> id, parentDocumentId |-> pid]

\* Mutation of flattenApiDocsFrom: the parent id is never assigned.
RECURSIVE flattenApiDocsFrom_Unassigned(_, _, _, _)
flattenApiDocsFrom_Unassigned(listing, docs, parentDocumentId, i) ==
    IF i > Len(docs) THEN <<>>
    ELSE LET id == docs[i]
             below == IF Len(listing.kids[id]) > 0
                      THEN flattenApiDocsFrom_Unassigned(listing, listing.kids[id], id, 1)
                      ELSE <<>>
         IN  <<Doc(id, listing.pid[id])>> \o below
             \o flattenApiDocsFrom_Unassigned(listing, docs, parentDocumentId, i + 1)

\* Mutation of flattenApiDocsFrom: the parent id passed down is assigned
\* whether the document has one or not.
RECURSIVE flattenApiDocsFrom_Overwrites(_, _, _, _)
flattenApiDocsFrom_Overwrites(listing, docs, parentDocumentId, i) ==
    IF i > Len(docs) THEN <<>>
    ELSE LET id == docs[i]
             pid == IF parentDocumentId # NoParent
                    THEN parentDocumentId ELSE listing.pid[id]
             below == IF Len(listing.kids[id]) > 0
                      THEN flattenApiDocsFrom_Overwrites(listing, listing.kids[id], id, 1)
                      ELSE <<>>
         IN  <<Doc(id, pid)>> \o below
             \o flattenApiDocsFrom_Overwrites(listing, docs, parentDocumentId, i + 1)

\* manager.js:14  flattenApiDocs(docs, parentDocumentId)
RECURSIVE flattenApiDocsFrom(_, _, _, _)
flattenApiDocsFrom(listing, docs, parentDocumentId, i) ==
    IF i > Len(docs) THEN <<>>
    ELSE LET id == docs[i]
             own == listing.pid[id]
             pid == IF parentDocumentId # NoParent /\ own = NoParent
                    THEN parentDocumentId ELSE own
             below == IF Len(listing.kids[id]) > 0
                      THEN flattenApiDocsFrom(listing, listing.kids[id], id, 1)
                      ELSE <<>>
         IN  <<Doc(id, pid)>> \o below
             \o flattenApiDocsFrom(listing, docs, parentDocumentId, i + 1)

flattenApiDocs(listing) == flattenApiDocsFrom(listing, listing.top, NoParent, 1)

\* Mutation of buildTreeAttach: a document whose parent is not in the map is
\* left out.
RECURSIVE buildTreeAttach_DropsOrphans(_, _, _, _)
buildTreeAttach_DropsOrphans(docs, map, tree, i) ==
    IF i > Len(docs) THEN tree
    ELSE LET doc == docs[i]
             p == doc.parentDocumentId
         IN  IF p # NoParent /\ p \in map
             THEN buildTreeAttach_DropsOrphans(docs, map,
                    [tree EXCEPT !.children[p] = Append(@, doc.id)], i + 1)
             ELSE IF p # NoParent
             THEN buildTreeAttach_DropsOrphans(docs, map, tree, i + 1)
             ELSE buildTreeAttach_DropsOrphans(docs, map,
                    [tree EXCEPT !.roots = Append(@, doc.id)], i + 1)

\* manager.js:77-83  second pass of buildTree over docs[i..]
RECURSIVE buildTreeAttach(_, _, _, _)
buildTreeAttach(docs, map, tree, i) ==
    IF i > Len(docs) THEN tree
    ELSE LET doc == docs[i]
             p == doc.parentDocumentId
         IN  IF p # NoParent /\ p \in map
             THEN buildTreeAttach(docs, map,
                    [tree EXCEPT !.children[p] = Append(@, doc.id)], i + 1)
             ELSE buildTreeAttach(docs, map,
                    [tree EXCEPT !.roots = Append(@, doc.id)], i + 1)

\* manager.js:69  buildTree(docs)
buildTree(docs) ==
    buildTreeAttach(docs, {docs[i].id : i \in 1..Len(docs)}, EmptyTree, 1)

\* The documents a walk over children arrays meets from the documents S.
RECURSIVE Reach(_, _)
Reach(tree, S) ==
    LET next == S \cup UNION {Range(tree.children[d]) : d \in S}
    IN  IF next = S THEN S ELSE Reach(tree, next)

\* manager.js:4, 70-75, 85  documentMap: the ids of the flat list and the
\* children array of each of them as buildTree leaves it.  The collection
\* whose listing was built is kept with the index for the statements about
\* it.
EmptyMap == [collection |-> "", ids |-> {}, children |-> EmptyTree.children]
documentMapOf(collectionId, docs) ==
    [collection |-> collectionId,
     ids |-> {docs[i].id : i \in 1..Len(docs)},
     children |-> buildTree(docs).children]

\* manager.js:150  flattenTree, ids only
RECURSIVE flattenTreeIds(_, _, _)
flattenTreeIds(tree, nodes, i) ==
    IF i > Len(nodes) THEN <<>>
    ELSE <<nodes[i]>>
         \o (IF Len(tree.children[nodes[i]]) > 0
             THEN flattenTreeIds(tree, tree.children[nodes[i]], 1) ELSE <<>>)
         \o flattenTreeIds(tree, nodes, i + 1)

\* Mutation of flattenTreeFrom: the children are listed at the indent of
\* their parent.
RECURSIVE flattenTreeFrom_SameIndent(_, _, _, _)
flattenTreeFrom_SameIndent(tree, nodes, indent, i) ==
    IF i > Len(nodes) THEN <<>>
    ELSE <<[id |-> nodes[i], indent |-> indent]>>
         \o (IF Len(tree.children[nodes[i]]) > 0
             THEN flattenTreeFrom_SameIndent(tree, tree.children[nodes[i]], indent, 1)
             ELSE <<>>)
         \o flattenTreeFrom_SameIndent(tree, nodes, indent, i + 1)

\* manager.js:150  flattenTree(tree, indent), from node i of the array on;
\* an entry is {id, name, indent}, the name is left out
RECURSIVE flattenTreeFrom(_, _, _, _)
flattenTreeFrom(tree, nodes, indent, i) ==
    IF i > Len(nodes) THEN <<>>
    ELSE <<[id |-> nodes[i], indent |-> indent]>>
         \o (IF Len(tree.children[nodes[i]]) > 0
             THEN flattenTreeFrom(tree, tree.children[nodes[i]], indent + 1, 1)
             ELSE <<>>)
         \o flattenTreeFrom(tree, nodes, indent, i + 1)

flattenTree(tree) == flattenTreeFrom(tree, tree.roots, 0, 1)

\* The documents rendered with a checkbox (manager.js:95 renderDocumentTree).
RenderedIds(tree) == Range(flattenTreeIds(tree, tree.roots, 1))

\* Mutation of filterTopLevelSelected: "else if" written as "if", so the
\* children of a selected node are searched as well.
RECURSIVE filterTopLevelSelectedFrom_Descend(_, _, _, _)
filterTopLevelSelectedFrom_Descend(tree, nodes, selectedIds, i) ==
    IF i > Len(nodes) THEN <<>>
    ELSE LET node == nodes[i]
         IN  (IF node \in selectedIds THEN <<node>> ELSE <<>>)
             \o (IF Len(tree.children[node]) > 0
                 THEN filterTopLevelSelectedFrom_Descend(
                          tree, tree.children[node], selectedIds, 1)
                 ELSE <<>>)
             \o filterTopLevelSelectedFrom_Descend(tree, nodes, selectedIds, i + 1)

\* manager.js:185  filterTopLevelSelected(tree, selectedIds)
RECURSIVE filterTopLevelSelectedFrom(_, _, _, _)
filterTopLevelSelectedFrom(tree, nodes, selectedIds, i) ==
    IF i > Len(nodes) THEN <<>>
    ELSE LET node == nodes[i]
             here == IF node \in selectedIds THEN <<node>>
                     ELSE IF Len(tree.children[node]) > 0
                          THEN filterTopLevelSelectedFrom(
                                   tree, tree.children[node], selectedIds, 1)
                          ELSE <<>>
         IN  here \o filterTopLevelSelectedFrom(tree, nodes, selectedIds, i + 1)

filterTopLevelSelected(tree, selectedIds) ==
    filterTopLevelSelectedFrom(tree, tree.roots, selectedIds, 1)


\* ============================================================ retryFetch
\* A JavaScript number: an integer or NaN.
Num(v) == [nan |-> FALSE, val |-> v]
NaN == [nan |-> TRUE, val |-> 0]

DigitChars == <<"0", "1", "2", "3", "4", "5", "6", "7", "8", "9">>
IsDigit(c) == \E k \in 1..10 : DigitChars[k] = c
DigitVal(c) == (CHOOSE k \in 1..10 : DigitChars[k] = c) - 1

\* The digits parseInt reads from position i on, up to the first other
\* character.
RECURSIVE ParseDigits(_, _, _)
ParseDigits(text, i, acc) ==
    IF i > Len(text) \/ ~IsDigit(text[i]) THEN acc
    ELSE ParseDigits(text, i + 1, 10 * acc + DigitVal(text[i]))

RECURSIVE SkipSpaces(_, _)
SkipSpaces(text, i) ==
    IF i <= Len(text) /\ text[i] = " " THEN SkipSpaces(text, i + 1) ELSE i

\* parseInt(text, 10): leading white space, an optional sign, then digits;
\* NaN when no digit is there.
parseInt(text) ==
    LET b == SkipSpaces(text, 1)
        neg == b <= Len(text) /\ text[b] = "-"
        d == IF b <= Len(text) /\ text[b] \in {"-", "+"} THEN b + 1 ELSE b
    IN  IF d > Len(text) \/ ~IsDigit(text[d]) THEN NaN
        ELSE Num((IF neg THEN -1 ELSE 1) * ParseDigits(text, d, 0))

Times(x, k) == IF x.nan THEN NaN ELSE Num(x.val * k)

\* response.headers.get("Retry-After"): null, or the text of the header
NoHeader == [present |-> FALSE, text |-> <<>>]
Header(text) == [present |-> TRUE, text |-> text]
Truthy(h) == h.present /\ h.text # <<>>

\* Mutation of BackoffDelay: the delay doubles from attempt 1 on only
BackoffDelay_Late(backoff, attempt) ==
    Num(backoff * Pow2(IF attempt = 0 THEN 0 ELSE attempt - 1))

\* manager.js:397 and 409  backoff * Math.pow(2, attempt)
BackoffDelay(backoff, attempt) == Num(backoff * Pow2(attempt))

\* Mutation of RateLimitDelay: the header is taken as milliseconds
RateLimitDelay_Millis(retryAfterHeader, backoff, attempt) ==
    IF Truthy(retryAfterHeader)
    THEN parseInt(retryAfterHeader.text)
    ELSE BackoffDelay(backoff, attempt)

\* manager.js:394-397  the delay after a 429 response
RateLimitDelay(retryAfterHeader, backoff, attempt) ==
    IF Truthy(retryAfterHeader)
    THEN Times(parseInt(retryAfterHeader.text), 1000)
    ELSE BackoffDelay(backoff, attempt)

\* Mutation of IsLastAttempt: the comparison is off by one
IsLastAttempt_Early(attempt, maxRetries) == attempt + 1 >= maxRetries

\* manager.js:406  attempt === maxRetries
IsLastAttempt(attempt, maxRetries) == attempt = maxRetries

\* What an attempt ended with: a response, a rejected fetch or the timer.
Response(status, retryAfter) ==
    [kind |-> "response", status |-> status, retryAfter |-> retryAfter]
NetworkError == [kind |-> "error", status |-> 0, retryAfter |-> NoHeader]
TimedOut == [kind |-> "timeout", status |-> 0, retryAfter |-> NoHeader]

Statuses == {200, 404, 500}
RetryAfterValues ==
    {NoHeader, Header(<<>>), Header(<<"0">>), Header(<<"2">>), Header(<<"1", "0">>),
     Header(<<"1", ".", "5">>), Header(<<"W", "e", "d">>)}
Responses ==
    {Response(st, NoHeader) : st \in Statuses}
        \cup {Response(429, h) : h \in RetryAfterValues}

NoResult == [kind |-> "none", status |-> 0, retryAfter |-> NoHeader]
Undefined == [kind |-> "undefined", status |-> 0, retryAfter |-> NoHeader]
NoError == [kind |-> "none", attempt |-> 0]

IdleFetch ==
    [pc |-> "idle", maxRetries |-> 0, backoff |-> 0, attempt |-> 0,
     outcomes |-> <<>>, sleeps |-> <<>>, outstanding |-> {},
     result |-> NoResult, error |-> NoError]

\* ============================================================ outlineAPI
Methods ==
    {"createCollection", "createDocument", "listCollections",
     "getCollectionDocuments", "moveDocument", "getDocument"}

\* response.ok
Ok(status) == status >= 200 /\ status <= 299

\* The body of a response as response.json() reads it: not JSON at all, or an
\* object whose data field is an array or something else.  Collections and
\* documents are numbered, the k-th held by the service stands at the 0-based
\* position k - 1 of its listing.
Malformed == [json |-> FALSE, array |-> FALSE, data |-> <<>>]
ArrayBody(items) == [json |-> TRUE, array |-> TRUE, data |-> items]
ObjectBody(item) == [json |-> TRUE, array |-> FALSE, data |-> <<item>>]

\* The answer of the service to {offset, limit}: the items at the 0-based
\* positions offset to offset + limit - 1 of the held items it holds.
PageOf(held, offset, pageSize) ==
    LET last == IF offset + pageSize < held THEN offset + pageSize ELSE held
    IN  [k \in 1..(last - offset) |-> offset + k]

\* What the awaited retryFetch gives a method: a response whose status is
\* not 429, an error it throws (network failure or timeout after the last
\* attempt), or undefined when the loop ends on a 429 response.
ApiResponse(status, body) == [kind |-> "response", status |-> status, body |-> body]
ApiThrown(kind) == [kind |-> kind, status |-> 0, body |-> Malformed]
ApiUndefined == [kind |-> "undefined", status |-> 0, body |-> Malformed]

\* What a method ends with: a value (null or data.data) or an error.  An
\* OutlineApiError carries a status (config.js:9-15), any other error none.
NoValue == [null |-> FALSE, array |-> FALSE, data |-> <<>>]
Null == [null |-> TRUE, array |-> FALSE, data |-> <<>>]
Value(array, data) == [null |-> FALSE, array |-> array, data |-> data]
NoApiError == [name |-> "", status |-> 0]
OutlineApiError(status) == [name |-> "OutlineApiError", status |-> status]
OtherError(name) == [name |-> name, status |-> 0]

IdleApi ==
    [pc |-> "idle", method |-> "", held |-> 0, offset |-> 0, requests |-> <<>>,
     received |-> <<>>, collections |-> <<>>, value |-> NoValue,
     error |-> NoApiError]

\* ================================================ tree builder, flattener
IdleBuild ==
    [pc |-> "idle", listing |-> [top |-> <<>>, kids |-> [d \in Docs |-> <<>>],
                                 pid |-> [d \in Docs |-> NoParent]],
     flatDocs |-> <<>>, tree |-> EmptyTree, flatList |-> <<>>]

\* ======================================================= the remote wiki
RECURSIVE SortedSeq(_)
SortedSeq(S) ==
    IF S = {} THEN <<>>
    ELSE LET m == CHOOSE x \in S : \A y \in S : x <= y
         IN  <<m>> \o SortedSeq(S \ {m})

\* What the service holds: the collection and the parent of every document.
ServerState == [coll |-> srvColl, parent |-> srvParent]

\* collections.documents of the collection collectionId (outlineAPI.js
\* getCollectionDocuments returns data.data as is), read from the service's
\* state srv.  The service answers either with nested children and no
\* parentDocumentId, or with a flat list that carries parentDocumentId.
ServerListing(srv, collectionId, shape) ==
    LET inSource == {d \in Docs : srv.coll[d] = collectionId}
    IN  IF shape = "nested"
        THEN [top  |-> SortedSeq({d \in inSource : srv.parent[d] \notin inSource}),
              kids |-> [d \in Docs |->
                          SortedSeq({c \in inSource : d \in inSource /\ srv.parent[c] = d})],
              pid  |-> [d \in Docs |-> NoParent]]
        ELSE [top  |-> SortedSeq(inSource),
              kids |-> [d \in Docs |-> <<>>],
              pid  |-> [d \in Docs |-> srv.parent[d]]]

Shapes == {"nested", "flat"}

NoAnswer == [coll |-> [d \in Docs |-> ""], parent |-> [d \in Docs |-> NoParent]]

\* ================================================================= loads
\* Load l <= MaxLoads belongs to the l-th change of the source dropdown,
\* load MaxLoads + o to the refresh of click o, the loads after these to the
\* further changes of the source dropdown.  A load names the collection it
\* asks for.
LoadIds == 1..(MaxLoads + MaxClicks + MaxChanges)
RefreshOf(o) == MaxLoads + o
SelectionIds == LoadIds \ {RefreshOf(o) : o \in Clicks}
IdleLoad == [st |-> "none", resp |-> NoAnswer, coll |-> ""]

\* The loads of the destination collection handler, one for each change of
\* the destination collection dropdown.
DestLoadIds == 1..MaxDestLoads

\* The destination dropdowns: the value of destinationCollection, the options
\* and the value of destinationFolder and of destinationSubFolder (the option
\* "Collection Root" has the value NoParent), and what the latest run of the
\* destinationFolder handler looked up in documentMap.
NoLookup == [folderId |-> NoParent, collection |-> "", index |-> ""]
EmptyDropdowns ==
    [destinationCollection |-> "",
     folderOptions |-> <<>>, destinationFolder |-> NoParent,
     subOptions |-> <<>>, destinationSubFolder |-> NoParent,
     lookup |-> NoLookup]

\* ======================================================== storageManager
\* The settings getSettings reads from chrome.storage.sync, the values a
\* setting can be saved with, what result[key] is for a key an area does not
\* hold, and the mark of a key cache has no own property for.
SettingKeys == {"outlineUrl", "apiToken"}
SettingValues == {"v1", "v2"}
NotStored == "undefined"
NotCached == "not cached"

\* storageManager.js:22, 49  the area useSync selects
AreaOf(useSync) == IF useSync THEN "sync" ELSE "local"

\* outlineApiInstance before the first instance is made (null), and an
\* OutlineAPI instance (outlineAPI.js constructor).
NoInstance == [outlineUrl |-> "", apiToken |-> ""]
OutlineAPI(outlineUrl, apiToken) == [outlineUrl |-> outlineUrl, apiToken |-> apiToken]

\* The call of the storage manager under way and how the latest call settled:
\* a get call (with the value its area held at that moment) or a
\* getOutlineAPI call (with the settings chrome.storage.sync held then).
NoItems == [k \in {} |-> ""]
NoSettings == [k \in SettingKeys |-> NotStored]
IdleCall == [fn |-> "", pc |-> "idle", key |-> "", useSync |-> TRUE,
             items |-> NoItems, settings |-> NoSettings]
NoGet == [outcome |-> "", key |-> "", useSync |-> TRUE, value |-> NotStored,
          held |-> NotStored, cached |-> FALSE]
NoApi == [outcome |-> "", instance |-> NoInstance, saved |-> NoSettings]
IdleStorageManager ==
    [sync |-> NoSettings, local |-> NoSettings,
     cache |-> [k \in SettingKeys |-> NotCached],
     outlineApiInstance |-> NoInstance,
     call |-> IdleCall, got |-> NoGet, gotApi |-> NoApi]

\* ================================================================ clicks
IdleOp == [pc |-> "idle", selectedIds |-> {}, topLevelSelected |-> <<>>,
           destCollectionId |-> "", destinationSubFolder |-> NoParent,
           destinationFolder |-> NoParent, destFolderId |-> NoParent,
           tree |-> EmptyTree, i |-> 1, stack |-> <<>>, calls |-> <<>>,
           alert |-> "", error |-> ""]

\* The values of the destination dropdowns.
DestCollectionValues == {"", DestColl}
DestFolderValues == {NoParent, DestFolder}
\* destinationSubFolder has options only below a chosen folder
\* (manager.js:278-293).
DestSubFolderValues(destinationFolder) ==
    IF destinationFolder = NoParent THEN {NoParent} ELSE {NoParent, DestSubFolder}

\* The forests the source collection can hold at start: every document is a
\* root or the child of a document listed before it.
Forests == {f \in [Docs -> {NoParent} \cup Docs] : \A d \in Docs : f[d] < d}

Init ==
    /\ srvParent \in Forests
    /\ srvColl = [d \in Docs |-> SourceColl]
    /\ documentTreeData = EmptyTree
    /\ loads = [l \in LoadIds |-> IdleLoad]
    /\ ops = [o \in Clicks |-> IdleOp]
    /\ documentMap = EmptyMap
    /\ destLoads = [l \in DestLoadIds |-> IdleLoad]
    /\ dropdowns = EmptyDropdowns
    /\ storageManager = IdleStorageManager
    /\ rf = IdleFetch
    /\ api = IdleApi
    /\ build = IdleBuild

\* ---------------------------------------------- source collection handler
\* collectionSelect.value: the collection of the latest change of the source
\* dropdown, "" before the first.
SelectedSource ==
    LET made == {l \in SelectionIds : loads[l].st # "none"}
    IN  IF made = {} THEN ""
        ELSE loads[CHOOSE l \in made : \A k \in made : k <= l].coll

\* manager.js:247-251  change of collectionSelect up to the request
SelectSource ==
    \E l \in 1..MaxLoads :
        /\ loads[l].st = "none"
        /\ \A k \in 1..(l - 1) : loads[k].st # "none"
        /\ loads' = [loads EXCEPT ![l].st = "sent", ![l].coll = SourceColl]
        /\ UNCHANGED <<storageManager, srvParent, srvColl, documentTreeData, ops, rf, api, build, destVars>>

\* the service answers a collections.documents request from what it holds
ServerAnswers ==
    \E l \in LoadIds :
        /\ loads[l].st = "sent"
        /\ loads' = [loads EXCEPT ![l].st = "answered", ![l].resp = ServerState]
        /\ UNCHANGED <<storageManager, srvParent, srvColl, documentTreeData, ops, rf, api, build, destVars>>

\* manager.js:253-256 and 325-327: the awaited documents arrive
LoadArrives ==
    \E l \in LoadIds, shape \in Shapes :
        /\ loads[l].st = "answered"
        /\ loads' = [loads EXCEPT ![l].st = "done", ![l].resp = NoAnswer]
        /\ documentTreeData' =
               buildTree(flattenApiDocs(ServerListing(loads[l].resp, loads[l].coll, shape)))
        /\ documentMap' =
               documentMapOf(loads[l].coll,
                   flattenApiDocs(ServerListing(loads[l].resp, loads[l].coll, shape)))
        /\ ops' = [o \in Clicks |->
                     IF l = RefreshOf(o) THEN [ops[o] EXCEPT !.pc = "done"] ELSE ops[o]]
        /\ UNCHANGED <<storageManager, srvParent, srvColl, rf, api, build, destLoads, dropdowns>>

\* manager.js:247-251  change of collectionSelect to another collection, at
\* any time: nothing waits for the loads under way
SelectAnySource ==
    \E l \in SelectionIds, collectionId \in {SourceColl, DestColl} :
        /\ loads[l].st = "none"
        /\ \A k \in SelectionIds : k < l => loads[k].st # "none"
        /\ collectionId # SelectedSource
        /\ loads' = [loads EXCEPT ![l].st = "sent", ![l].coll = collectionId]
        /\ UNCHANGED <<storageManager, srvParent, srvColl, documentTreeData, ops, rf, api, build, destVars>>

\* getCollectionDocuments throws: the handler's promise is rejected
LoadFails ==
    \E l \in LoadIds :
        /\ loads[l].st \in {"sent", "answered"}
        /\ loads' = [loads EXCEPT ![l].st = "failed", ![l].resp = NoAnswer]
        /\ ops' = [o \in Clicks |->
                     IF l = RefreshOf(o)
                     THEN [ops[o] EXCEPT !.pc = "rejected", !.error = "refresh"]
                     ELSE ops[o]]
        /\ UNCHANGED <<storageManager, srvParent, srvColl, documentTreeData, rf, api, build, destVars>>


\* ------------------------------------------------- Move button handler
MoveCall(id, collectionId, parentDocumentId) ==
    [id |-> id, collectionId |-> collectionId,
     parentDocumentId |-> parentDocumentId, outcome |-> "pending"]

\* Mutation of NextCall: the child is moved under the destination parent the
\* frame was called with instead of under doc.id.
NextCall_SameParent(op) ==
    IF op.stack = <<>>
    THEN MoveCall(op.topLevelSelected[op.i], op.destCollectionId, op.destFolderId)
    ELSE LET f == Last(op.stack)
         IN  MoveCall(op.tree.children[f.doc][f.k], op.destCollectionId, op.destFolderId)

\* The position of a chain is the index i of the loop of manager.js:317 and
\* the stack of moveDocumentRecursively frames, each the document of the frame
\* and the index k of the child the loop of manager.js:209 stands at.
\* The arguments of the next api.moveDocument call (manager.js:207): line 318
\* passes the chosen folder for a top-level document, line 210 passes doc.id
\* for a child.
NextCall(op) ==
    IF op.stack = <<>>
    THEN MoveCall(op.topLevelSelected[op.i], op.destCollectionId, op.destFolderId)
    ELSE LET f == Last(op.stack)
         IN  MoveCall(op.tree.children[f.doc][f.k], op.destCollectionId, f.doc)

\* Return from every frame whose children loop is over (manager.js:208-212)
\* and step the loop of the caller.
RECURSIVE Unwind(_, _, _)
Unwind(tree, stack, i) ==
    IF stack = <<>> THEN [stack |-> stack, i |-> i]
    ELSE LET f == Last(stack)
             rest == SubSeq(stack, 1, Len(stack) - 1)
         IN  IF f.k <= Len(tree.children[f.doc]) THEN [stack |-> stack, i |-> i]
             ELSE IF rest = <<>> THEN [stack |-> <<>>, i |-> i + 1]
             ELSE Unwind(tree, [rest EXCEPT ![Len(rest)].k = @ + 1], i)

\* Mutation of ChainOver: the statements after the loop follow the first
\* top-level document.
ChainOver_FirstDone(op) == op.stack = <<>> /\ op.i > 1

\* manager.js:317-319  the loop over topLevelSelected is over: every frame
\* has returned and no top-level document is left.
ChainOver(op) == op.stack = <<>> /\ op.i > Len(op.topLevelSelected)

\* Mutation of AfterMoveOk: the children loop is left out.
AfterMoveOk_NoChildren(op) ==
    LET done == Len(op.calls)
        u == Unwind(op.tree, Append(op.stack, [doc |-> op.calls[done].id, k |-> 1 + Len(op.tree.children[op.calls[done].id])]), op.i)
    IN  [op EXCEPT !.calls[done].outcome = "ok", !.stack = u.stack, !.i = u.i,
                   !.pc = "ready"]

\* manager.js:207-211 after the awaited moveDocument resolved: loop over the
\* children of the document just moved.
AfterMoveOk(op) ==
    LET done == Len(op.calls)
        u == Unwind(op.tree, Append(op.stack, [doc |-> op.calls[done].id, k |-> 1]), op.i)
    IN  [op EXCEPT !.calls[done].outcome = "ok", !.stack = u.stack, !.i = u.i,
                   !.pc = "ready"]

\* Mutation of AfterMoveFail: the error is caught and logged inside the loop,
\* which goes on with the next document.
AfterMoveFail_Caught(op) ==
    LET done == Len(op.calls)
        u == Unwind(op.tree, Append(op.stack, [doc |-> op.calls[done].id, k |-> 1 + Len(op.tree.children[op.calls[done].id])]), op.i)
    IN  [op EXCEPT !.calls[done].outcome = "fail", !.stack = u.stack, !.i = u.i,
                   !.pc = "ready"]

\* manager.js:207 when the awaited moveDocument throws: neither
\* moveDocumentRecursively nor the click handler catches, so the rejection
\* leaves every frame and the handler.
AfterMoveFail(op) ==
    [op EXCEPT !.calls[Len(op.calls)].outcome = "fail", !.stack = <<>>,
               !.pc = "rejected", !.error = "moveDocument"]

\* Mutation of CanIssue: the calls are started without await.
CanIssue_NoAwait(op) == op.pc \in {"ready", "awaiting"}

\* The await of manager.js:207, 210 and 318: the next call is issued only when
\* the handler is not suspended on a call.
CanIssue(op) == op.pc = "ready"

\* Mutation of destFolderId: the folder is preferred to the sub-folder.
destFolderId_FolderFirst(destinationSubFolder, destinationFolder) ==
    IF destinationFolder # NoParent THEN destinationFolder
    ELSE destinationSubFolder

\* manager.js:306-309  the destination parent: the value of the sub-folder
\* dropdown, and the value of the folder dropdown when that one is empty.
destFolderId(destinationSubFolder, destinationFolder) ==
    IF destinationSubFolder # NoParent THEN destinationSubFolder
    ELSE destinationFolder

\* Mutation of ClickOn: the check of the destination collection is left out.
ClickOn_NoDestinationCheck(o, selectedIds, destCollectionId, destinationSubFolder, destinationFolder) ==
    /\ ops[o].pc = "idle"
    /\ ops' = [ops EXCEPT ![o] =
         IF selectedIds = {}
         THEN [@ EXCEPT !.pc = "done",
                        !.alert = "Please select at least one document to move."]
         ELSE [@ EXCEPT !.pc = "ready",
                        !.selectedIds = selectedIds,
                        !.topLevelSelected =
                            filterTopLevelSelected(documentTreeData, selectedIds),
                        !.destCollectionId = destCollectionId,
                        !.destinationSubFolder = destinationSubFolder,
                        !.destinationFolder = destinationFolder,
                        !.destFolderId =
                            destFolderId(destinationSubFolder, destinationFolder),
                        !.tree = documentTreeData]]
    /\ UNCHANGED <<storageManager, srvParent, srvColl, documentTreeData, loads, rf, api, build, destVars>>

\* manager.js:297-316  click on moveBtn, up to the start of the loop, as
\* invocation o of the handler, with the checked boxes and the values of the
\* three destination dropdowns.  getOutlineAPI (line 316) answers with the
\* instance the load of the tree has cached.
ClickOn(o, selectedIds, destCollectionId, destinationSubFolder, destinationFolder) ==
    /\ ops[o].pc = "idle"
    /\ ops' = [ops EXCEPT ![o] =
         IF selectedIds = {}
         THEN [@ EXCEPT !.pc = "done",
                        !.alert = "Please select at least one document to move."]
         ELSE IF destCollectionId = ""
         THEN [@ EXCEPT !.pc = "done",
                        !.alert = "Please select a destination collection.",
                        !.selectedIds = selectedIds,
                        !.topLevelSelected =
                            filterTopLevelSelected(documentTreeData, selectedIds),
                        !.destinationSubFolder = destinationSubFolder,
                        !.destinationFolder = destinationFolder,
                        !.destFolderId =
                            destFolderId(destinationSubFolder, destinationFolder),
                        !.tree = documentTreeData]
         ELSE [@ EXCEPT !.pc = "ready",
                        !.selectedIds = selectedIds,
                        !.topLevelSelected =
                            filterTopLevelSelected(documentTreeData, selectedIds),
                        !.destCollectionId = destCollectionId,
                        !.destinationSubFolder = destinationSubFolder,
                        !.destinationFolder = destinationFolder,
                        !.destFolderId =
                            destFolderId(destinationSubFolder, destinationFolder),
                        !.tree = documentTreeData]]
    /\ UNCHANGED <<storageManager, srvParent, srvColl, documentTreeData, loads, rf, api, build, destVars>>

\* One click on Move.
Click ==
    \E selectedIds \in SUBSET RenderedIds(documentTreeData),
       destCollectionId \in DestCollectionValues,
       destinationFolder \in DestFolderValues :
    \E destinationSubFolder \in DestSubFolderValues(destinationFolder) :
        ClickOn(1, selectedIds, destCollectionId, destinationSubFolder,
                destinationFolder)

\* Clicks on Move at any time, the sub-folder dropdown being empty: nothing
\* disables the button while an operation is under way.
ClickAnyTime ==
    \E o \in Clicks :
    \E selectedIds \in SUBSET RenderedIds(documentTreeData),
       destCollectionId \in DestCollectionValues,
       destinationFolder \in DestFolderValues :
        /\ \A k \in 1..(o - 1) : ops[k].pc # "idle"
        /\ ClickOn(o, selectedIds, destCollectionId, NoParent, destinationFolder)

\* manager.js:207  api.moveDocument(doc.id, destCollectionId, destParentId)
IssueMove ==
    \E o \in Clicks :
        /\ CanIssue(ops[o])
        /\ ~ChainOver(ops[o])
        /\ ops' = [ops EXCEPT ![o].calls = Append(@, NextCall(ops[o])),
                              ![o].pc = "awaiting"]
        /\ UNCHANGED <<storageManager, srvParent, srvColl, documentTreeData, loads, rf, api, build, destVars>>

\* outlineAPI.js moveDocument: the body of the documents.move request; it
\* carries parentDocumentId only when destParentId is not empty.
payload(id, collectionId, destParentId) ==
    [id |-> id, collectionId |-> collectionId,
     parentDocumentId |-> IF destParentId # NoParent THEN <<destParentId>> ELSE <<>>]

\* documents.move as the service applies it: without parentDocumentId the
\* document goes to the root of the collection
ServerMove(call) ==
    LET body == payload(call.id, call.collectionId, call.parentDocumentId)
    IN  /\ srvColl' = [srvColl EXCEPT ![body.id] = body.collectionId]
        /\ srvParent' = [srvParent EXCEPT ![body.id] =
                            IF body.parentDocumentId = <<>> THEN NoParent
                            ELSE body.parentDocumentId[1]]

\* the awaited moveDocument resolves; when it was the last call of the loop,
\* manager.js:320-324 follow at once
MoveSucceeds ==
    \E o \in Clicks :
        /\ ops[o].pc = "awaiting"
        /\ ServerMove(Last(ops[o].calls))
        /\ LET op == AfterMoveOk(ops[o])
           IN  IF ChainOver(op)
               THEN /\ ops' = [ops EXCEPT ![o] =
                         [op EXCEPT !.pc = "refreshing",
                                    !.alert = "Documents moved successfully!"]]
                    /\ loads' = [loads EXCEPT ![RefreshOf(o)].st = "sent",
                                              ![RefreshOf(o)].coll = SelectedSource]
               ELSE /\ ops' = [ops EXCEPT ![o] = op]
                    /\ UNCHANGED loads
        /\ UNCHANGED <<storageManager, documentTreeData, rf, api, build, destVars>>

\* the awaited moveDocument throws (OutlineApiError, or the error retryFetch
\* gave up with, in which case the service may have applied the move)
MoveFails ==
    \E o \in Clicks, applied \in BOOLEAN :
        /\ ops[o].pc = "awaiting"
        /\ IF applied THEN ServerMove(Last(ops[o].calls))
           ELSE UNCHANGED <<srvParent, srvColl>>
        /\ ops' = [ops EXCEPT ![o] = AfterMoveFail(ops[o])]
        /\ UNCHANGED <<storageManager, documentTreeData, loads, rf, api, build, destVars>>

\* One move operation.
Next ==
    \/ SelectSource
    \/ ServerAnswers
    \/ LoadArrives
    \/ LoadFails
    \/ Click
    \/ IssueMove
    \/ MoveSucceeds
    \/ MoveFails

Spec == Init /\ [][Next]_vars

\* Up to MaxClicks clicks, at any time: operations can be under way together.
NextReentrant ==
    \/ SelectSource
    \/ ServerAnswers
    \/ LoadArrives
    \/ LoadFails
    \/ ClickAnyTime
    \/ IssueMove
    \/ MoveSucceeds
    \/ MoveFails

SpecReentrant == Init /\ [][NextReentrant]_vars

\* One move operation and changes of the source dropdown between the two
\* collections, at any time.
NextLoads ==
    \/ SelectAnySource
    \/ ServerAnswers
    \/ LoadArrives
    \/ LoadFails
    \/ Click
    \/ IssueMove
    \/ MoveSucceeds
    \/ MoveFails

SpecLoads == Init /\ [][NextLoads]_vars

\* ---------------------------------------- destination dropdown handlers
\* Both collections hold documents at start; a child is in the collection of
\* its parent.
InitDestination ==
    /\ srvColl \in [Docs -> {SourceColl, DestColl}]
    /\ srvParent \in Forests
    /\ \A d \in Docs :
           srvParent[d] # NoParent => srvColl[srvParent[d]] = srvColl[d]
    /\ documentTreeData = EmptyTree
    /\ loads = [l \in LoadIds |-> IdleLoad]
    /\ ops = [o \in Clicks |-> IdleOp]
    /\ documentMap = EmptyMap
    /\ destLoads = [l \in DestLoadIds |-> IdleLoad]
    /\ dropdowns = EmptyDropdowns
    /\ storageManager = IdleStorageManager
    /\ rf = IdleFetch
    /\ api = IdleApi
    /\ build = IdleBuild

\* manager.js:260-263  change of destinationCollection up to the request
SelectDestination ==
    \E l \in DestLoadIds, collectionId \in {SourceColl, DestColl} :
        /\ destLoads[l].st = "none"
        /\ \A k \in 1..(l - 1) : destLoads[k].st # "none"
        /\ collectionId # dropdowns.destinationCollection
        /\ dropdowns' = [dropdowns EXCEPT !.destinationCollection = collectionId]
        /\ destLoads' = [destLoads EXCEPT ![l].st = "sent", ![l].coll = collectionId]
        /\ UNCHANGED <<storageManager, srvParent, srvColl, documentTreeData, loads, ops, rf, api,
                       build, documentMap>>

\* the service answers a collections.documents request of the destination
\* handler from what it holds
DestServerAnswers ==
    \E l \in DestLoadIds :
        /\ destLoads[l].st = "sent"
        /\ destLoads' = [destLoads EXCEPT ![l].st = "answered", ![l].resp = ServerState]
        /\ UNCHANGED <<storageManager, srvParent, srvColl, documentTreeData, loads, ops, rf, api,
                       build, documentMap, dropdowns>>

\* manager.js:265-272  the awaited documents of the destination collection
\* arrive: buildTree (which assigns documentMap), flattenTree, the options of
\* destinationFolder under "Collection Root", destinationSubFolder emptied.
DestLoadArrives ==
    \E l \in DestLoadIds, shape \in Shapes :
        /\ destLoads[l].st = "answered"
        /\ destLoads' = [destLoads EXCEPT ![l].st = "done", ![l].resp = NoAnswer]
        /\ LET flatDocs == flattenApiDocs(
                    ServerListing(destLoads[l].resp, destLoads[l].coll, shape))
               tree == buildTree(flatDocs)
           IN  /\ documentMap' = documentMapOf(destLoads[l].coll, flatDocs)
               /\ dropdowns' = [dropdowns EXCEPT
                      !.folderOptions = flattenTreeIds(tree, tree.roots, 1),
                      !.destinationFolder = NoParent,
                      !.subOptions = <<>>,
                      !.destinationSubFolder = NoParent]
        /\ UNCHANGED <<storageManager, srvParent, srvColl, documentTreeData, loads, ops, rf, api,
                       build>>

\* getCollectionDocuments of the destination handler throws: the handler's
\* promise is rejected and the dropdowns stay as they are
DestLoadFails ==
    \E l \in DestLoadIds :
        /\ destLoads[l].st \in {"sent", "answered"}
        /\ destLoads' = [destLoads EXCEPT ![l].st = "failed", ![l].resp = NoAnswer]
        /\ UNCHANGED <<storageManager, srvParent, srvColl, documentTreeData, loads, ops, rf, api,
                       build, documentMap, dropdowns>>

\* manager.js:287-293  the options the handler of destinationFolder gives
\* destinationSubFolder: the subtree below the folder that documentMap holds,
\* none when the folder is not in the map or has no children there.  When
\* the children arrays lead back to a document, flattenTree does not return
\* (RangeError) and the dropdown stays empty.
subList(map, folderId) ==
    IF folderId \notin map.ids \/ Len(map.children[folderId]) = 0 THEN <<>>
    ELSE LET below == Reach(map, Range(map.children[folderId]))
         IN  IF \E n \in below : n \in Reach(map, Range(map.children[n]))
             THEN <<>>
             ELSE flattenTreeIds(map, map.children[folderId], 1)

\* manager.js:276-294  change of destinationFolder to one of its options
ChooseFolder ==
    \E folderId \in ({NoParent} \cup Range(dropdowns.folderOptions))
                        \ {dropdowns.destinationFolder} :
        /\ dropdowns' = [dropdowns EXCEPT
               !.destinationFolder = folderId,
               !.destinationSubFolder = NoParent,
               !.subOptions = IF folderId = NoParent THEN <<>>
                              ELSE subList(documentMap, folderId),
               !.lookup = IF folderId = NoParent THEN @
                          ELSE [folderId |-> folderId,
                                collection |-> dropdowns.destinationCollection,
                                index |-> documentMap.collection]]
        /\ UNCHANGED <<storageManager, srvParent, srvColl, documentTreeData, loads, ops, rf, api,
                       build, documentMap, destLoads>>

\* the user picks one of the options of destinationSubFolder (manager.js:292)
ChooseSubFolder ==
    \E subFolderId \in ({NoParent} \cup Range(dropdowns.subOptions))
                           \ {dropdowns.destinationSubFolder} :
        /\ dropdowns' = [dropdowns EXCEPT !.destinationSubFolder = subFolderId]
        /\ UNCHANGED <<storageManager, srvParent, srvColl, documentTreeData, loads, ops, rf, api,
                       build, documentMap, destLoads>>

\* One click on Move with the destination dropdowns as they stand
\* (manager.js:304-309).
ClickChosen ==
    \E selectedIds \in SUBSET RenderedIds(documentTreeData) :
        ClickOn(1, selectedIds, dropdowns.destinationCollection,
                dropdowns.destinationSubFolder, dropdowns.destinationFolder)

\* One selection of the source collection, changes of the destination
\* dropdowns and one move operation, at any time.
NextDestination ==
    \/ SelectSource
    \/ ServerAnswers
    \/ LoadArrives
    \/ LoadFails
    \/ SelectDestination
    \/ DestServerAnswers
    \/ DestLoadArrives
    \/ DestLoadFails
    \/ ChooseFolder
    \/ ChooseSubFolder
    \/ ClickChosen
    \/ IssueMove
    \/ MoveSucceeds
    \/ MoveFails

SpecDestination == InitDestination /\ [][NextDestination]_vars


\* ------------------------------------------------------ retryFetch steps
InitFetch ==
    /\ srvParent = [d \in Docs |-> NoParent]
    /\ srvColl = [d \in Docs |-> SourceColl]
    /\ documentTreeData = EmptyTree
    /\ loads = [l \in LoadIds |-> IdleLoad]
    /\ ops = [o \in Clicks |-> IdleOp]
    /\ documentMap = EmptyMap
    /\ destLoads = [l \in DestLoadIds |-> IdleLoad]
    /\ dropdowns = EmptyDropdowns
    /\ storageManager = IdleStorageManager
    /\ rf = IdleFetch
    /\ api = IdleApi
    /\ build = IdleBuild

\* manager.js:387-390  retryFetch is called and sends its first attempt
RetryFetchCall ==
    \E maxRetries \in 0..MAX_RETRIES, backoff \in {INITIAL_BACKOFF, 2 * INITIAL_BACKOFF} :
        /\ rf.pc = "idle"
        /\ rf' = [rf EXCEPT !.pc = "fetching", !.maxRetries = maxRetries,
                            !.backoff = backoff, !.outstanding = {0}]
        /\ UNCHANGED <<moveVars, api, build>>

\* manager.js:404-410  the catch block of attempt rf.attempt
AfterFailure(r, outcome) ==
    IF IsLastAttempt(r.attempt, r.maxRetries)
    THEN [r EXCEPT !.pc = "thrown", !.outcomes = Append(@, outcome),
                   !.error = [kind |-> outcome.kind, attempt |-> r.attempt]]
    ELSE [r EXCEPT !.pc = "sleeping", !.outcomes = Append(@, outcome),
                   !.sleeps = Append(@, BackoffDelay(r.backoff, r.attempt))]

\* Mutation of AfterResponse: a 5xx response is slept on and retried like a
\* 429 response.
AfterResponse_RetryServerError(r, response) ==
    IF response.status = 429 \/ response.status >= 500
    THEN [r EXCEPT !.pc = "sleeping", !.outcomes = Append(@, response),
                   !.sleeps = Append(@, RateLimitDelay(response.retryAfter,
                                                       r.backoff, r.attempt))]
    ELSE [r EXCEPT !.pc = "returned", !.outcomes = Append(@, response),
                   !.result = response]

\* manager.js:390-403  the awaited fetchWithTimeout resolves with a response
AfterResponse(r, response) ==
    IF response.status = 429
    THEN [r EXCEPT !.pc = "sleeping", !.outcomes = Append(@, response),
                   !.sleeps = Append(@, RateLimitDelay(response.retryAfter,
                                                       r.backoff, r.attempt))]
    ELSE [r EXCEPT !.pc = "returned", !.outcomes = Append(@, response),
                   !.result = response]

\* manager.js:368-371  the fetch of the attempt under way resolves in time
ResponseArrives ==
    \E response \in Responses :
        /\ rf.pc = "fetching"
        /\ rf' = [AfterResponse(rf, response) EXCEPT !.outstanding = @ \ {rf.attempt}]
        /\ UNCHANGED <<moveVars, api, build>>

\* manager.js:372-375  the fetch of the attempt under way rejects in time
FetchRejects ==
    /\ rf.pc = "fetching"
    /\ rf' = [AfterFailure(rf, NetworkError) EXCEPT !.outstanding = @ \ {rf.attempt}]
    /\ UNCHANGED <<moveVars, api, build>>

\* manager.js:364-366  the timer fires first; the fetch itself goes on
TimerFires ==
    /\ rf.pc = "fetching"
    /\ rf' = AfterFailure(rf, TimedOut)
    /\ UNCHANGED <<moveVars, api, build>>

\* Mutation of AfterLateSettle: the response of an attempt that timed out is
\* handed to the call waiting in retryFetch.
AfterLateSettle_Resolves(r, a, settled) ==
    IF settled.kind = "response" /\ settled.status # 429
          /\ r.pc \in {"fetching", "sleeping"}
    THEN [r EXCEPT !.outstanding = @ \ {a}, !.pc = "returned", !.result = settled]
    ELSE [r EXCEPT !.outstanding = @ \ {a}]

\* manager.js:368-375  the fetch of attempt a settles after the timer has
\* rejected the promise of that attempt: resolve and reject of a settled
\* promise do nothing, what the fetch settled with is read by nobody
AfterLateSettle(r, a, settled) == [r EXCEPT !.outstanding = @ \ {a}]

\* manager.js:368-375  the fetch of an attempt that timed out settles, with a
\* response or a network error
LateSettles ==
    \E a \in rf.outstanding, settled \in Responses \cup {NetworkError} :
        /\ ~(rf.pc = "fetching" /\ a = rf.attempt)
        /\ rf' = AfterLateSettle(rf, a, settled)
        /\ UNCHANGED <<moveVars, api, build>>

\* manager.js:388, 399-401, 410  the delay is over: attempt++ and the test
\* of the loop; past the loop the function ends without a return statement
SleepEnds ==
    /\ rf.pc = "sleeping"
    /\ rf' = IF rf.attempt + 1 <= rf.maxRetries
             THEN [rf EXCEPT !.pc = "fetching", !.attempt = @ + 1,
                             !.outstanding = @ \cup {rf.attempt + 1}]
             ELSE [rf EXCEPT !.pc = "returned", !.attempt = @ + 1,
                             !.result = Undefined]
    /\ UNCHANGED <<moveVars, api, build>>

NextFetch ==
    \/ RetryFetchCall
    \/ ResponseArrives
    \/ FetchRejects
    \/ TimerFires
    \/ LateSettles
    \/ SleepEnds

SpecFetch == InitFetch /\ [][NextFetch]_vars

\* ------------------------------------------------------ outlineAPI steps
\* part_000:208 and 252: the offset of the first request of the listings; the
\* payload of the other methods has none
FirstOffset(method) ==
    IF method \in {"listCollections", "getCollectionDocuments"} THEN 1 ELSE 0

\* part_000:234  offset += limit
NextOffset(offset) == offset + limit

\* Mutation of AfterPage: the loop is left before the short page is pushed.
AfterPage_DropsShortPage(a, body) ==
    IF body.array /\ Len(body.data) >= limit
    THEN [a EXCEPT !.collections = @ \o body.data,
                   !.offset = NextOffset(@),
                   !.requests = Append(@, NextOffset(a.offset))]
    ELSE [a EXCEPT !.pc = "returned", !.value = Value(TRUE, a.collections)]

\* part_000:224-240  one round of the loop of listCollections, from the
\* payload of a successful response on
AfterPage(a, body) ==
    IF body.array
    THEN LET collections == a.collections \o body.data
         IN  IF Len(body.data) < limit
             THEN [a EXCEPT !.collections = collections, !.pc = "returned",
                            !.value = Value(TRUE, collections)]
             ELSE [a EXCEPT !.collections = collections,
                            !.offset = NextOffset(@),
                            !.requests = Append(@, NextOffset(a.offset))]
    ELSE [a EXCEPT !.pc = "returned", !.value = Value(TRUE, a.collections)]

\* Mutation of AfterNotOk: every method answers a failed response with null.
AfterNotOk_Null(a, response) == [a EXCEPT !.pc = "returned", !.value = Null]

\* Mutation of AfterNotOk: getDocument throws like the other methods.
AfterNotOk_Throws(a, response) ==
    [a EXCEPT !.pc = "thrown", !.error = OutlineApiError(response.status)]

\* part_000:167-170, 197-200, 219-222, 262-265, 297-300 and 320-322: the
\* response is not ok
AfterNotOk(a, response) ==
    IF a.method = "getDocument"
    THEN [a EXCEPT !.pc = "returned", !.value = Null]
    ELSE [a EXCEPT !.pc = "thrown", !.error = OutlineApiError(response.status)]

\* part_000:171-172, 201-202, 224-240, 267-268, 302-303 and 323-324: the
\* response is ok; response.json() throws a SyntaxError on a body that is
\* not JSON
AfterOk(a, response) ==
    IF ~response.body.json
    THEN [a EXCEPT !.pc = "thrown", !.error = OtherError("SyntaxError")]
    ELSE IF a.method = "listCollections" THEN AfterPage(a, response.body)
    ELSE [a EXCEPT !.pc = "returned",
                   !.value = Value(response.body.array, response.body.data)]

\* The method from its awaited retryFetch on.  An error retryFetch throws
\* leaves the method as it is, no method has a try block; reading .ok of
\* undefined throws a TypeError.
AfterRetryFetch(a, result) ==
    LET b == [a EXCEPT !.received = Append(@, result)]
    IN  IF result.kind \in {"error", "timeout"}
        THEN [b EXCEPT !.pc = "thrown", !.error = OtherError(result.kind)]
        ELSE IF result.kind = "undefined"
        THEN [b EXCEPT !.pc = "thrown", !.error = OtherError("TypeError")]
        ELSE IF ~Ok(result.status) THEN AfterNotOk(b, result)
        ELSE AfterOk(b, result)

\* The bodies the service can answer the request under way with.
Bodies(a) ==
    {Malformed, ObjectBody(1)}
        \cup (IF a.method = "listCollections"
              THEN {ArrayBody(PageOf(a.held, a.offset, limit))}
              ELSE IF a.method = "getCollectionDocuments"
              THEN {ArrayBody(PageOf(a.held, a.offset, documentsLimit))}
              ELSE {})

FetchResults(a) ==
    {ApiResponse(st, body) : st \in Statuses, body \in Bodies(a)}
        \cup {ApiThrown("error"), ApiThrown("timeout"), ApiUndefined}

InitApi ==
    /\ srvParent = [d \in Docs |-> NoParent]
    /\ srvColl = [d \in Docs |-> SourceColl]
    /\ documentTreeData = EmptyTree
    /\ loads = [l \in LoadIds |-> IdleLoad]
    /\ ops = [o \in Clicks |-> IdleOp]
    /\ documentMap = EmptyMap
    /\ destLoads = [l \in DestLoadIds |-> IdleLoad]
    /\ dropdowns = EmptyDropdowns
    /\ storageManager = IdleStorageManager
    /\ rf = IdleFetch
    /\ build = IdleBuild
    /\ \E held \in 0..MaxCollections : api = [IdleApi EXCEPT !.held = held]

\* a method of OutlineAPI is called and awaits its first retryFetch
ApiCall ==
    \E method \in Methods :
        /\ api.pc = "idle"
        /\ api' = [api EXCEPT !.pc = "awaiting", !.method = method,
                              !.offset = FirstOffset(method),
                              !.requests = <<FirstOffset(method)>>]
        /\ UNCHANGED <<moveVars, rf, build>>

\* the awaited retryFetch completes
ApiFetchCompletes ==
    \E result \in FetchResults(api) :
        /\ api.pc = "awaiting"
        /\ api' = AfterRetryFetch(api, result)
        /\ UNCHANGED <<moveVars, rf, build>>

NextApi ==
    \/ ApiCall
    \/ ApiFetchCompletes

SpecApi == InitApi /\ [][NextApi]_vars

\* The continuation of an await runs once the awaited promise has settled,
\* and retryFetch settles: every attempt ends with its timer at the latest.
SpecApiFair == SpecApi /\ WF_vars(NextApi)

\* ------------------------------------------ tree builder, flattener steps
\* A parentDocumentId that names no document of the listing.
Stranger == MaxDocs + 1

\* The arrays of distinct documents of the set docs.
Orders(docs) ==
    {ord \in UNION {[1..n -> docs] : n \in 0..Cardinality(docs)} :
        \A i, j \in 1..Len(ord) : i # j => ord[i] # ord[j]}

Position(ord, d) == CHOOSE i \in 1..Len(ord) : ord[i] = d

\* The ways to nest the documents of ord: each document under none or under
\* a document that stands before it.
Nestings(ord) ==
    {np \in [Docs -> {NoParent} \cup Range(ord)] :
        \A d \in Docs : np[d] # NoParent =>
            d \in Range(ord) /\ Position(ord, np[d]) < Position(ord, d)}

Under(ord, np, p) == SelectSeq(ord, LAMBDA d : np[d] = p)

\* A response of collections.documents.  A flat one lists the documents of
\* ord with any parentDocumentId (none, a document of the listing or not, the
\* document itself); a nested one carries for each document none, the
\* document it is nested under, or one that names no document of the listing.
\* The parentDocumentId of a document that is not listed is never read.
FlatListings(ord) ==
    {[top |-> ord, kids |-> [d \in Docs |-> <<>>],
      pid |-> [d \in Docs |-> IF d \in Range(ord) THEN own[d] ELSE NoParent]] :
        own \in [Range(ord) -> {NoParent} \cup Docs]}

NestedListings(ord, np) ==
    LET top == Under(ord, np, NoParent)
        kids == [d \in Docs |-> IF d \in Range(ord) THEN Under(ord, np, d) ELSE <<>>]
    IN  {[top |-> top, kids |-> kids,
          pid |-> [d \in Docs |->
                     IF d \notin Range(ord) \/ own[d] = "none" THEN NoParent
                     ELSE IF own[d] = "nest" THEN np[d] ELSE Stranger]] :
            own \in [Range(ord) -> {"none", "nest", "else"}]}

Present(listing) ==
    Range(listing.top) \cup UNION {Range(listing.kids[d]) : d \in Docs}

\* manager.js:251 and 263  docs = await api.getCollectionDocuments(...)
Received(listing) ==
    build = [IdleBuild EXCEPT !.pc = "received", !.listing = listing]

InitBuild ==
    /\ srvParent = [d \in Docs |-> NoParent]
    /\ srvColl = [d \in Docs |-> SourceColl]
    /\ documentTreeData = EmptyTree
    /\ loads = [l \in LoadIds |-> IdleLoad]
    /\ ops = [o \in Clicks |-> IdleOp]
    /\ documentMap = EmptyMap
    /\ destLoads = [l \in DestLoadIds |-> IdleLoad]
    /\ dropdowns = EmptyDropdowns
    /\ storageManager = IdleStorageManager
    /\ rf = IdleFetch
    /\ api = IdleApi
    /\ \E ord \in Orders(Docs) :
          \/ \E listing \in FlatListings(ord) : Received(listing)
          \/ \E np \in Nestings(ord) :
                \E listing \in NestedListings(ord, np) : Received(listing)

\* manager.js:253 and 265  flatDocs = flattenApiDocs(docs)
ApplyFlattenApiDocs ==
    /\ build.pc = "received"
    /\ build' = [build EXCEPT !.pc = "flattened",
                              !.flatDocs = flattenApiDocs(build.listing)]
    /\ UNCHANGED <<moveVars, rf, api>>

\* manager.js:255 and 267  buildTree(flatDocs)
ApplyBuildTree ==
    /\ build.pc = "flattened"
    /\ build' = [build EXCEPT !.pc = "built", !.tree = buildTree(build.flatDocs)]
    /\ UNCHANGED <<moveVars, rf, api>>

\* manager.js:268  flatList = flattenTree(tree)
ApplyFlattenTree ==
    /\ build.pc = "built"
    /\ build' = [build EXCEPT !.pc = "listed", !.flatList = flattenTree(build.tree)]
    /\ UNCHANGED <<moveVars, rf, api>>

NextBuild ==
    \/ ApplyFlattenApiDocs
    \/ ApplyBuildTree
    \/ ApplyFlattenTree

SpecBuild == InitBuild /\ [][NextBuild]_vars

\* ---------------------------------------------- storageManager steps
\* The two storage areas hold any settings at start; the module has just
\* been loaded.  The calls are made one after the other.
InitStorage ==
    /\ srvParent = [d \in Docs |-> NoParent]
    /\ srvColl = [d \in Docs |-> SourceColl]
    /\ documentTreeData = EmptyTree
    /\ loads = [l \in LoadIds |-> IdleLoad]
    /\ ops = [o \in Clicks |-> IdleOp]
    /\ documentMap = EmptyMap
    /\ destLoads = [l \in DestLoadIds |-> IdleLoad]
    /\ dropdowns = EmptyDropdowns
    /\ rf = IdleFetch
    /\ api = IdleApi
    /\ build = IdleBuild
    /\ \E sync \in [SettingKeys -> SettingValues \cup {NotStored}],
          local \in [SettingKeys -> SettingValues \cup {NotStored}] :
           storageManager = [IdleStorageManager EXCEPT !.sync = sync, !.local = local]

\* The settings an area holds.
Held(sm, area) == IF area = "sync" THEN sm.sync ELSE sm.local

\* storageManager.js:16-22  get(key, useSync) with a string key: the cached
\* value is resolved whatever area is asked for, else the area is read.
GetCall ==
    \E key \in SettingKeys, useSync \in BOOLEAN :
        /\ storageManager.call.pc = "idle"
        /\ storageManager' =
               IF storageManager.cache[key] # NotCached
               THEN [storageManager EXCEPT
                       !.gotApi = NoApi,
                       !.got = [outcome |-> "resolved", key |-> key,
                                useSync |-> useSync,
                                value |-> storageManager.cache[key],
                                held |-> Held(storageManager, AreaOf(useSync))[key],
                                cached |-> TRUE]]
               ELSE [storageManager EXCEPT
                       !.got = NoGet, !.gotApi = NoApi,
                       !.call = [IdleCall EXCEPT !.fn = "get", !.pc = "reading",
                                                 !.key = key, !.useSync = useSync]]
        /\ UNCHANGED <<moveVarsButStorage, rf, api, build>>

\* storageManager.js:23-35  the callback of storage.get: lastError rejects,
\* else the value read is cached and resolved.
StorageGetAnswers ==
    \E lastError \in BOOLEAN :
        /\ storageManager.call.fn = "get"
        /\ storageManager.call.pc = "reading"
        /\ LET c == storageManager.call
               value == Held(storageManager, AreaOf(c.useSync))[c.key]
           IN  storageManager' =
                 IF lastError
                 THEN [storageManager EXCEPT
                         !.call = IdleCall,
                         !.got = [outcome |-> "rejected", key |-> c.key,
                                  useSync |-> c.useSync, value |-> NotStored,
                                  held |-> value, cached |-> FALSE]]
                 ELSE [storageManager EXCEPT
                         !.call = IdleCall,
                         !.cache[c.key] = value,
                         !.got = [outcome |-> "resolved", key |-> c.key,
                                  useSync |-> c.useSync, value |-> value,
                                  held |-> value, cached |-> FALSE]]
        /\ UNCHANGED <<moveVarsButStorage, rf, api, build>>

\* The items a set call can save: values for one setting or for both.
ItemSets ==
    UNION {[keys -> SettingValues] : keys \in (SUBSET SettingKeys) \ {{}}}

\* storageManager.js:47-50  set(items, useSync)
SetCall ==
    \E items \in ItemSets, useSync \in BOOLEAN :
        /\ storageManager.call.pc = "idle"
        /\ storageManager' = [storageManager EXCEPT
               !.got = NoGet, !.gotApi = NoApi,
               !.call = [IdleCall EXCEPT !.fn = "set", !.pc = "writing",
                                         !.items = items, !.useSync = useSync]]
        /\ UNCHANGED <<moveVarsButStorage, rf, api, build>>

\* Object.assign(target, items)
Assign(target, items) ==
    [k \in DOMAIN target |-> IF k \in DOMAIN items THEN items[k] ELSE target[k]]

\* storageManager.js:50-57  the callback of storage.set: lastError rejects
\* (nothing was saved), else the items are in the area and are copied into
\* the cache.
StorageSetAnswers ==
    \E lastError \in BOOLEAN :
        /\ storageManager.call.fn = "set"
        /\ storageManager.call.pc = "writing"
        /\ LET c == storageManager.call
           IN  storageManager' =
                 IF lastError
                 THEN [storageManager EXCEPT !.call = IdleCall]
                 ELSE IF c.useSync
                 THEN [storageManager EXCEPT
                         !.call = IdleCall,
                         !.sync = Assign(@, c.items),
                         !.cache = Assign(@, c.items)]
                 ELSE [storageManager EXCEPT
                         !.call = IdleCall,
                         !.local = Assign(@, c.items),
                         !.cache = Assign(@, c.items)]
        /\ UNCHANGED <<moveVarsButStorage, rf, api, build>>

\* storageManager.js:85-89  getOutlineAPI: the cached instance is returned,
\* else getSettings is awaited.
GetOutlineAPICall ==
    /\ storageManager.call.pc = "idle"
    /\ storageManager' =
           IF storageManager.outlineApiInstance # NoInstance
           THEN [storageManager EXCEPT
                   !.got = NoGet,
                   !.gotApi = [outcome |-> "returned",
                               instance |-> storageManager.outlineApiInstance,
                               saved |-> storageManager.sync]]
           ELSE [storageManager EXCEPT
                   !.got = NoGet, !.gotApi = NoApi,
                   !.call = [IdleCall EXCEPT !.fn = "getOutlineAPI",
                                             !.pc = "getSettings"]]
    /\ UNCHANGED <<moveVarsButStorage, rf, api, build>>

\* storageManager.js:68, 23-35  get(["outlineUrl", "apiToken"], true) of
\* getSettings: an array of keys is always read from the area, and the
\* values read are cached.
SettingsRead ==
    \E lastError \in BOOLEAN :
        /\ storageManager.call.fn = "getOutlineAPI"
        /\ storageManager.call.pc = "getSettings"
        /\ storageManager' =
               IF lastError
               THEN [storageManager EXCEPT
                       !.call = IdleCall,
                       !.gotApi = [outcome |-> "thrown", instance |-> NoInstance,
                                   saved |-> storageManager.sync]]
               ELSE [storageManager EXCEPT
                       !.cache = storageManager.sync,
                       !.call.settings = storageManager.sync,
                       !.call.pc = "getLocalStorage"]
        /\ UNCHANGED <<moveVarsButStorage, rf, api, build>>

\* storageManager.js:89-94  with the settings read: a missing outlineUrl or
\* apiToken throws and leaves outlineApiInstance as it is, else the instance
\* is made from them, kept and returned.
AfterSettings(sm) ==
    LET outlineUrl == sm.call.settings["outlineUrl"]
        apiToken == sm.call.settings["apiToken"]
    IN  IF outlineUrl = NotStored \/ apiToken = NotStored
        THEN [sm EXCEPT !.call = IdleCall,
                        !.gotApi = [outcome |-> "not set", instance |-> NoInstance,
                                    saved |-> sm.sync]]
        ELSE [sm EXCEPT !.call = IdleCall,
                        !.outlineApiInstance = OutlineAPI(outlineUrl, apiToken),
                        !.gotApi = [outcome |-> "returned",
                                    instance |-> OutlineAPI(outlineUrl, apiToken),
                                    saved |-> sm.sync]]

\* storageManager.js:69-74, utils.js getLocalStorage("collectionId"): lastError
\* makes getSettings throw, else getOutlineAPI goes on with the settings.
LocalSettingsRead ==
    \E lastError \in BOOLEAN :
        /\ storageManager.call.fn = "getOutlineAPI"
        /\ storageManager.call.pc = "getLocalStorage"
        /\ storageManager' =
               IF lastError
               THEN [storageManager EXCEPT
                       !.call = IdleCall,
                       !.gotApi = [outcome |-> "thrown", instance |-> NoInstance,
                                   saved |-> storageManager.sync]]
               ELSE AfterSettings(storageManager)
        /\ UNCHANGED <<moveVarsButStorage, rf, api, build>>

NextStorage ==
    \/ GetCall
    \/ StorageGetAnswers
    \/ SetCall
    \/ StorageSetAnswers
    \/ GetOutlineAPICall
    \/ SettingsRead
    \/ LocalSettingsRead

SpecStorage == InitStorage /\ [][NextStorage]_vars

\* ============================================== vocabulary of the claims
\* The documents of a tree, the parent of a document, its proper ancestors
\* and the preorder of the tree, stated from the children arrays alone.
TreeNodes(tree) ==
    Range(tree.roots) \cup UNION {Range(tree.children[d]) : d \in Docs}

ParentIn(tree, d) ==
    IF \E p \in Docs : d \in Range(tree.children[p])
    THEN CHOOSE p \in Docs : d \in Range(tree.children[p])
    ELSE NoParent

RECURSIVE AncestorsOf(_, _)
AncestorsOf(tree, d) ==
    LET p == ParentIn(tree, d)
    IN  IF p = NoParent THEN {} ELSE {p} \cup AncestorsOf(tree, p)

IndexIn(s, x) == CHOOSE i \in 1..Len(s) : s[i] = x

\* The child positions on the way from the roots down to d.
RECURSIVE PathOf(_, _)
PathOf(tree, d) ==
    LET p == ParentIn(tree, d)
    IN  IF p = NoParent THEN <<IndexIn(tree.roots, d)>>
        ELSE Append(PathOf(tree, p), IndexIn(tree.children[p], d))

\* d comes before e in preorder: d is an ancestor of e, or the paths part and
\* d's goes to the earlier sibling.
PreorderBefore(tree, d, e) ==
    LET pd == PathOf(tree, d)
        pe == PathOf(tree, e)
    IN  \/ Len(pd) < Len(pe) /\ SubSeq(pe, 1, Len(pd)) = pd
        \/ \E k \in 1..Len(pd) :
              /\ k <= Len(pe)
              /\ SubSeq(pd, 1, k - 1) = SubSeq(pe, 1, k - 1)
              /\ pd[k] < pe[k]

InPreorder(tree, s) ==
    \A i, j \in 1..Len(s) : i < j => PreorderBefore(tree, s[i], s[j])

\* The documents a set of checked boxes selects at top level, and the
\* documents of the subtrees below them.
TopLevelOf(tree, sel) ==
    {d \in TreeNodes(tree) : d \in sel /\ AncestorsOf(tree, d) \cap sel = {}}

SubtreesOf(tree, tops) ==
    {d \in TreeNodes(tree) : d \in tops \/ AncestorsOf(tree, d) \cap tops # {}}

Clicked(o) == ops[o].pc # "idle"
Succeeded(o) == ops[o].alert = "Documents moved successfully!"
CallIds(o) == [j \in 1..Len(ops[o].calls) |-> ops[o].calls[j].id]

C2_FailureAborts ==
    \A o \in Clicks :
        \A j \in 1..Len(ops[o].calls) :
            ops[o].calls[j].outcome = "fail" =>
                /\ j = Len(ops[o].calls)
                /\ ops[o].pc = "rejected"
                /\ ops[o].error = "moveDocument"
                /\ ops[o].alert = ""
                /\ loads[RefreshOf(o)].st = "none"
                /\ \A k \in 1..(j - 1) :
                       /\ ops[o].calls[k].id # ops[o].calls[j].id
                       /\ ops[o].calls[k].outcome = "ok"

\* the first call of a chain failed with documents left to move: a child of
\* the failed document and a later top-level document
C2_Witness ==
    \E o \in Clicks :
        /\ Len(ops[o].calls) = 1
        /\ ops[o].calls[1].outcome = "fail"
        /\ Len(ops[o].topLevelSelected) = 2
        /\ Len(ops[o].tree.children[ops[o].calls[1].id]) > 0

\* --------------------------------------------------------------------- C3
\* C3: filterTopLevelSelected returns, in preorder and once each, exactly the
\* documents of the tree that are selected and have no selected proper
\* ancestor; none of the returned documents is a descendant of another.
C3_TopLevelSelected ==
    \A o \in Clicks :
        Clicked(o) /\ ops[o].selectedIds # {} =>
            LET r == ops[o].topLevelSelected
                t == ops[o].tree
            IN  /\ Range(r) = TopLevelOf(t, ops[o].selectedIds)
                /\ Len(r) = Cardinality(Range(r))
                /\ InPreorder(t, r)
                /\ \A d, e \in Range(r) : d \notin AncestorsOf(t, e)

\* a selected document under an unselected root is returned and its selected
\* child is not
C3_Witness ==
    \E o \in Clicks :
        /\ Clicked(o)
        /\ \E d \in Range(ops[o].topLevelSelected) :
              /\ ParentIn(ops[o].tree, d) # NoParent
              /\ ParentIn(ops[o].tree, d) \notin ops[o].selectedIds
              /\ \E c \in ops[o].selectedIds :
                    c \notin Range(ops[o].topLevelSelected) /\ ParentIn(ops[o].tree, c) = d

\* --------------------------------------------------------------------- C4
\* C4: when every call of an operation has succeeded, each document that is
\* checked or has a checked ancestor (the subtrees of the top-level selected
\* documents) is the subject of exactly one move call, and every other document
\* of none.
C4_SubtreeMovedOnce ==
    \A o \in Clicks :
        Succeeded(o) =>
            LET t == ops[o].tree
                moved == {d \in TreeNodes(t) :
                            d \in ops[o].selectedIds
                            \/ AncestorsOf(t, d) \cap ops[o].selectedIds # {}}
            IN  \A d \in Docs :
                    Cardinality({j \in 1..Len(ops[o].calls) : ops[o].calls[j].id = d})
                        = IF d \in moved THEN 1 ELSE 0

\* an operation moved an unchecked child of a checked document and left a
\* document of the tree where it was
C4_Witness ==
    \E o \in Clicks :
        /\ Succeeded(o)
        /\ \E j \in 1..Len(ops[o].calls) : ops[o].calls[j].id \notin ops[o].selectedIds
        /\ \E d \in TreeNodes(ops[o].tree) : d \notin Range(CallIds(o))

\* --------------------------------------------------------------------- C5
\* C5: at most one move call of an operation is in progress, and it is the
\* last one the operation has issued: every earlier call has returned.
C5_SequentialCalls ==
    \A o \in Clicks :
        \A j \in 1..Len(ops[o].calls) :
            ops[o].calls[j].outcome = "pending" => j = Len(ops[o].calls)

\* the third call of an operation is in progress
C5_Witness ==
    \E o \in Clicks :
        /\ Len(ops[o].calls) = 3
        /\ ops[o].calls[3].outcome = "pending"

\* --------------------------------------------------------------------- C6
InChain(o) == ops[o].pc \in {"ready", "awaiting"} /\ Len(ops[o].calls) > 0

\* C6: no two operations are inside their chains at the same time: while one
\* operation has issued a move call and has not finished its chain, no other
\* operation has a move call in progress.
C6_NoParallelChains ==
    \A o1, o2 \in Clicks :
        o1 # o2 /\ InChain(o1) => ops[o2].pc # "awaiting"


\* ------------------------------------------------- retryFetch vocabulary
Failed(outcome) == outcome.kind \in {"error", "timeout"}
RateLimited(outcome) == outcome.kind = "response" /\ outcome.status = 429
Completed == rf.pc \in {"returned", "thrown"}
FailureCount == Cardinality({i \in 1..Len(rf.outcomes) : Failed(rf.outcomes[i])})

\* The decimal numeral of n.
RECURSIVE Decimal(_)
Decimal(n) ==
    IF n < 10 THEN <<DigitChars[n + 1]>>
    ELSE Append(Decimal(n \div 10), DigitChars[(n % 10) + 1])

\* --------------------------------------------------------------------- C7
\* C7: a 429 response does not use up the retries: a call never completes on
\* a 429 response (it retries after each one), and it throws only when
\* maxRetries + 1 attempts have failed with a network or timeout error.
C7_RateLimitNotCounted ==
    Completed =>
        /\ ~RateLimited(Last(rf.outcomes))
        /\ rf.pc = "thrown" => FailureCount = rf.maxRetries + 1

\* --------------------------------------------------------------------- C8
\* C8: a call all of whose attempts fail with a network or timeout error
\* makes maxRetries + 1 attempts, sleeps after each of them but the last and
\* then throws the error of the last attempt; it throws no sooner and never
\* returns.
C8_ThrowsAfterMaxRetries ==
    (\A i \in 1..Len(rf.outcomes) : Failed(rf.outcomes[i])) =>
        /\ rf.pc # "returned"
        /\ Len(rf.outcomes) <= rf.maxRetries + 1
        /\ rf.pc = "thrown" <=> Len(rf.outcomes) = rf.maxRetries + 1
        /\ rf.pc = "thrown" =>
              /\ rf.error = [kind |-> Last(rf.outcomes).kind, attempt |-> rf.maxRetries]
              /\ Len(rf.sleeps) = rf.maxRetries

\* four attempts failed, the network first and the timer last, and the call
\* has thrown
C8_Witness ==
    /\ rf.pc = "thrown"
    /\ rf.maxRetries = MAX_RETRIES
    /\ Len(rf.outcomes) = MAX_RETRIES + 1
    /\ rf.outcomes[1] = NetworkError
    /\ Last(rf.outcomes) = TimedOut
    /\ rf.error.kind = "timeout"

\* --------------------------------------------------------------------- C9
\* C9: the sleep that follows the failure of attempt k (attempts counted from
\* 0) lasts backoff * 2^k; a call with maxRetries = 3 whose first two attempts
\* time out and whose third is answered returns that response after three
\* attempts and two sleeps of backoff and 2 * backoff.
C9_ExponentialBackoff ==
    /\ \A i \in 1..Len(rf.sleeps) :
          Failed(rf.outcomes[i]) => rf.sleeps[i] = Num(rf.backoff * Pow2(i - 1))
    /\ ( /\ rf.maxRetries = 3
         /\ Len(rf.outcomes) = 3
         /\ rf.outcomes[1] = TimedOut
         /\ rf.outcomes[2] = TimedOut
         /\ rf.outcomes[3] = Response(200, NoHeader) )
       => /\ rf.pc = "returned"
          /\ rf.result = rf.outcomes[3]
          /\ rf.attempt = 2
          /\ rf.sleeps = <<Num(rf.backoff), Num(2 * rf.backoff)>>

\* two timeouts, then a 200 response
C9_Witness ==
    /\ rf.maxRetries = 3
    /\ rf.outcomes = <<TimedOut, TimedOut, Response(200, NoHeader)>>
    /\ rf.pc = "returned"

\* -------------------------------------------------------------------- C10
\* C10: the sleep that follows a 429 response lasts n * 1000 ms when the
\* Retry-After header is the decimal numeral of n, and backoff * 2^attempt ms
\* when the response has no Retry-After header.
C10_RetryAfterDelay ==
    \A i \in 1..Len(rf.outcomes) :
        RateLimited(rf.outcomes[i]) =>
            /\ i <= Len(rf.sleeps)
            /\ \A n \in 0..10 :
                   rf.outcomes[i].retryAfter = Header(Decimal(n))
                       => rf.sleeps[i] = Num(n * 1000)
            /\ rf.outcomes[i].retryAfter = NoHeader
                   => rf.sleeps[i] = Num(rf.backoff * Pow2(i - 1))

\* a 429 with Retry-After: 10 at attempt 0 and a 429 without the header at
\* attempt 2
C10_Witness ==
    /\ Len(rf.sleeps) >= 3
    /\ rf.outcomes[1] = Response(429, Header(<<"1", "0">>))
    /\ rf.sleeps[1] = Num(10000)
    /\ rf.outcomes[3] = Response(429, NoHeader)
    /\ rf.sleeps[3] = Num(4 * rf.backoff)

\* -------------------------------------------------------------------- C11
\* C11: a response whose status is not 429, successful or not, is returned at
\* once: it is the last outcome of the call, the call has returned it, no
\* sleep follows it and no further attempt is sent.
C11_OtherResponseReturned ==
    \A i \in 1..Len(rf.outcomes) :
        (rf.outcomes[i].kind = "response" /\ rf.outcomes[i].status # 429) =>
            /\ i = Len(rf.outcomes)
            /\ rf.pc = "returned"
            /\ rf.result = rf.outcomes[i]
            /\ Len(rf.sleeps) = i - 1
            /\ rf.attempt = i - 1
            /\ \A a \in rf.outstanding : a < i - 1

\* a 500 response to the first attempt of a call with three retries left
C11_Witness ==
    /\ rf.pc = "returned"
    /\ rf.maxRetries = MAX_RETRIES
    /\ rf.outcomes = <<Response(500, NoHeader)>>

\* -------------------------------------------------------------------- C12
\* What retryFetch has seen of attempt i - 1 when its timer fired: the last
\* attempt throws the timeout error, any other is slept on and retried.
TimeoutRetried(i) ==
    IF i - 1 = rf.maxRetries
    THEN /\ rf.pc = "thrown"
         /\ rf.error = [kind |-> "timeout", attempt |-> i - 1]
    ELSE /\ Len(rf.sleeps) >= i
         /\ rf.sleeps[i] = Num(rf.backoff * Pow2(i - 1))
         /\ Len(rf.outcomes) = i =>
                \/ rf.pc = "sleeping"
                \/ rf.pc = "fetching" /\ rf.attempt = i

\* C12: an attempt whose timer fires fails with a timeout error and is
\* retried like any failed attempt (slept on, then the next attempt is sent;
\* only the last attempt throws); the response retryFetch returns is the one
\* its current attempt received in time, and the late settling of a timed-out
\* attempt changes nothing of the call.
C12_TimeoutRetried ==
    /\ [](\A i \in 1..Len(rf.outcomes) : rf.outcomes[i] = TimedOut => TimeoutRetried(i))
    /\ [](rf.pc = "returned" /\ rf.result.kind = "response" =>
             /\ Len(rf.outcomes) = rf.attempt + 1
             /\ rf.result = rf.outcomes[rf.attempt + 1])
    /\ [][LateSettles =>
             /\ rf'.pc = rf.pc
             /\ rf'.result = rf.result
             /\ rf'.outcomes = rf.outcomes
             /\ rf'.attempt = rf.attempt]_vars

\* the fetch of attempt 0 has settled after its timer fired, while attempt 1
\* is under way
C12_Witness ==
    /\ rf.pc = "fetching"
    /\ rf.attempt = 1
    /\ rf.outcomes = <<TimedOut>>
    /\ rf.outstanding = {1}

\* ------------------------------------------------- outlineAPI vocabulary
ApiDone == api.pc \in {"returned", "thrown"}
NotOkResponse(result) == result.kind = "response" /\ ~Ok(result.status)
OkJson(result) == result.kind = "response" /\ Ok(result.status) /\ result.body.json
ArrayPage(result) == OkJson(result) /\ result.body.array
FullPage(result) == ArrayPage(result) /\ Len(result.body.data) >= limit

\* The array pages among the first k results, one after the other.
RECURSIVE PagesConcat(_, _)
PagesConcat(received, k) ==
    IF k = 0 THEN <<>>
    ELSE PagesConcat(received, k - 1)
         \o (IF ArrayPage(received[k]) THEN received[k].body.data ELSE <<>>)

\* -------------------------------------------------------------------- C13
\* C13: listCollections requests offsets that grow by the page size, goes on
\* only after a full page, stops at the first successful page that is shorter
\* than the page size or is not an array and then returns the concatenation of
\* the pages received, in order; against a service that holds a finite
\* listing it makes no more than (collections held) / 25 + 1 requests and
\* terminates.
C13_Pagination ==
    /\ [](api.method = "listCollections" =>
            /\ \A k \in 2..Len(api.requests) :
                   api.requests[k] = api.requests[k - 1] + limit
            /\ Len(api.requests) =
                   Len(api.received) + (IF api.pc = "awaiting" THEN 1 ELSE 0)
            /\ Len(api.requests) <= (api.held \div limit) + 1
            /\ api.collections = PagesConcat(api.received, Len(api.received))
            /\ \A k \in 1..Len(api.received) :
                   /\ k < Len(api.received) => FullPage(api.received[k])
                   /\ OkJson(api.received[k]) /\ ~FullPage(api.received[k]) =>
                          /\ k = Len(api.received)
                          /\ api.pc = "returned"
                          /\ api.value = Value(TRUE, api.collections)
            /\ api.pc = "returned" =>
                   /\ OkJson(Last(api.received))
                   /\ ~FullPage(Last(api.received)))
    /\ [](api.method = "listCollections" => <>ApiDone)

\* listCollections has returned the collections of two full pages and a short
\* one
C13_Witness ==
    /\ api.method = "listCollections"
    /\ api.pc = "returned"
    /\ Len(api.requests) = 3
    /\ Len(api.collections) > 2 * limit
    /\ Len(Last(api.received).body.data) \in 1..(limit - 1)

\* -------------------------------------------------------------------- C14
\* C14: a method other than getDocument that gets a response that is not ok
\* throws an OutlineApiError whose status is the status of that response, and
\* an OutlineApiError is thrown in no other case; an error thrown by
\* retryFetch (network failure or timeout) is the error the method throws,
\* not an OutlineApiError.
C14_ApiErrors ==
    ApiDone =>
        LET last == Last(api.received)
        IN  /\ api.method # "getDocument" /\ NotOkResponse(last) =>
                   /\ api.pc = "thrown"
                   /\ api.error = OutlineApiError(last.status)
            /\ api.error.name = "OutlineApiError" =>
                   /\ api.pc = "thrown"
                   /\ NotOkResponse(last)
                   /\ api.error.status = last.status
            /\ last.kind \in {"error", "timeout"} =>
                   /\ api.pc = "thrown"
                   /\ api.error = OtherError(last.kind)
                   /\ api.error.name # "OutlineApiError"

\* moveDocument has thrown the OutlineApiError of a 404 response
C14_Witness ==
    /\ api.method = "moveDocument"
    /\ api.pc = "thrown"
    /\ Last(api.received) = ApiResponse(404, ObjectBody(1))
    /\ api.error = OutlineApiError(404)

\* -------------------------------------------------------------------- C15
\* C15: getDocument returns null for every response that is not ok and
\* throws no OutlineApiError; for an ok response with a JSON body it returns
\* the data of the body.
C15_GetDocumentNull ==
    api.method = "getDocument" /\ ApiDone =>
        LET last == Last(api.received)
        IN  /\ NotOkResponse(last) => api.pc = "returned" /\ api.value = Null
            /\ api.error.name # "OutlineApiError"
            /\ OkJson(last) =>
                   /\ api.pc = "returned"
                   /\ api.value = Value(last.body.array, last.body.data)
            /\ api.value = Null => NotOkResponse(last)

\* getDocument has returned null on a 404 response
C15_Witness ==
    /\ api.method = "getDocument"
    /\ api.pc = "returned"
    /\ api.value = Null
    /\ Last(api.received).status = 404

\* -------------------------------------------- tree builder vocabulary
\* The nesting of a listing as a tree, the ids of a flat list, the documents
\* reachable from the roots of a tree.
ListingTree(listing) == [roots |-> listing.top, children |-> listing.kids]
FlatIds(flatDocs) == [i \in 1..Len(flatDocs) |-> flatDocs[i].id]
Flattened == build.pc \in {"flattened", "built", "listed"}
Built == build.pc \in {"built", "listed"}

ReachableNodes(tree) == Reach(tree, Range(tree.roots))

\* The listing is the nested form of a tree: a nested document carries no
\* parentDocumentId or that of the document it is nested under, a top-level
\* document none that names a document of the listing.
NestedForm(listing) ==
    \A d \in Present(listing) :
        LET np == ParentIn(ListingTree(listing), d)
        IN  IF np = NoParent THEN listing.pid[d] \notin Present(listing)
            ELSE listing.pid[d] \in {NoParent, np}

\* -------------------------------------------------------------------- C16
\* C16: the tree built from the flattened nested form of a tree T has the
\* nodes of T, the roots of T and, for every node, the children (hence the
\* parent) it has in T.
C16_RoundTrip ==
    Built /\ NestedForm(build.listing) =>
        /\ build.tree.roots = build.listing.top
        /\ \A d \in Docs : build.tree.children[d] = build.listing.kids[d]
        /\ TreeNodes(build.tree) = Present(build.listing)
        /\ \A d \in Present(build.listing) :
               ParentIn(build.tree, d) = ParentIn(ListingTree(build.listing), d)

\* the tree of a document, its child and its grandchild, nested without
\* parentDocumentId, has been rebuilt
C16_Witness ==
    /\ Built
    /\ \A d \in Docs : build.listing.pid[d] = NoParent
    /\ \E a, b, c \in Docs :
          /\ build.listing.top = <<a>>
          /\ build.listing.kids[a] = <<b>>
          /\ build.listing.kids[b] = <<c>>
          /\ build.tree.children[b] = <<c>>

\* -------------------------------------------------------------------- C17
\* C17: buildTree completes on every flat list; a document whose
\* parentDocumentId names no document of the list is one of the roots, and a
\* document is a child only of the document its parentDocumentId names, which
\* is in the list.
C17_MissingParentIsRoot ==
    /\ build.pc = "flattened" => ENABLED ApplyBuildTree
    /\ Built =>
          LET ids == Range(FlatIds(build.flatDocs))
          IN  /\ \A i \in 1..Len(build.flatDocs) :
                     LET doc == build.flatDocs[i]
                     IN  /\ doc.parentDocumentId # NoParent
                               /\ doc.parentDocumentId \notin ids
                             => doc.id \in Range(build.tree.roots)
                         /\ \A p \in Docs :
                                doc.id \in Range(build.tree.children[p])
                                    => p = doc.parentDocumentId /\ p \in ids
              /\ \A p \in Docs : build.tree.children[p] # <<>> => p \in ids

\* a document that names a parent outside the list is a root, next to a
\* document that has a child
C17_Witness ==
    /\ Built
    /\ \E i \in 1..Len(build.flatDocs) :
          /\ build.flatDocs[i].parentDocumentId # NoParent
          /\ build.flatDocs[i].parentDocumentId \notin Range(FlatIds(build.flatDocs))
          /\ build.flatDocs[i].id \in Range(build.tree.roots)
    /\ \E p \in Docs : build.tree.children[p] # <<>>

\* -------------------------------------------------------------------- C18
\* C18: flattenApiDocs returns one entry per document of the nested input, in
\* preorder of the nesting; an entry keeps the parentDocumentId its document
\* came with, and a document that came without one gets the id of the document
\* it was nested under (none at top level).
C18_FlattenPreorder ==
    Flattened =>
        LET lt == ListingTree(build.listing)
            ids == FlatIds(build.flatDocs)
        IN  /\ Range(ids) = Present(build.listing)
            /\ Len(ids) = Cardinality(Present(build.listing))
            /\ InPreorder(lt, ids)
            /\ \A i \in 1..Len(ids) :
                   build.flatDocs[i].parentDocumentId =
                       IF build.listing.pid[ids[i]] # NoParent
                       THEN build.listing.pid[ids[i]]
                       ELSE ParentIn(lt, ids[i])

\* a listing with a nested document that came without parentDocumentId and a
\* nested document that came with another one than its nesting
C18_Witness ==
    /\ build.pc = "flattened"
    /\ \E c1, c2 \in Present(build.listing) :
          /\ ParentIn(ListingTree(build.listing), c1) # NoParent
          /\ build.listing.pid[c1] = NoParent
          /\ ParentIn(ListingTree(build.listing), c2) # NoParent
          /\ build.listing.pid[c2] = Stranger

\* -------------------------------------------------------------------- C19
\* C19: flattenTree returns one entry per document reachable from the roots,
\* in preorder, with indent 0 for a root and the indent of its parent plus 1
\* for a child (its depth); for the flat docs 1 (root), 2 and 3 (children of
\* 1) it returns the ids 1, 2, 3 with indents 0, 1, 1.
C19_FlattenTreeIndent ==
    build.pc = "listed" =>
        LET t == build.tree
            e == build.flatList
            ids == [i \in 1..Len(e) |-> e[i].id]
        IN  /\ Range(ids) = ReachableNodes(t)
            /\ Len(ids) = Cardinality(Range(ids))
            /\ InPreorder(t, ids)
            /\ \A i \in 1..Len(e) :
                   /\ e[i].indent = Len(PathOf(t, ids[i])) - 1
                   /\ IF ParentIn(t, ids[i]) = NoParent THEN e[i].indent = 0
                      ELSE \E j \in 1..(i - 1) :
                              /\ ids[j] = ParentIn(t, ids[i])
                              /\ e[i].indent = e[j].indent + 1
            /\ build.flatDocs = <<Doc(1, NoParent), Doc(2, 1), Doc(3, 1)>> =>
                   e = <<[id |-> 1, indent |-> 0], [id |-> 2, indent |-> 1],
                         [id |-> 3, indent |-> 1]>>

\* the tree of the flat docs 1, 2 (child of 1), 3 (child of 1) has been
\* flattened
C19_Witness ==
    /\ build.pc = "listed"
    /\ build.flatDocs = <<Doc(1, NoParent), Doc(2, 1), Doc(3, 1)>>
    /\ Len(build.flatList) = 3

\* -------------------------------------------------------------------- C20
\* The trees of a collection as the service holds it now, and the loads and
\* operations at rest: every load made has arrived, no operation is under way
\* or was aborted.
TreesOf(collectionId) ==
    {buildTree(flattenApiDocs(ServerListing(ServerState, collectionId, shape))) :
        shape \in Shapes}

AtRest ==
    /\ \A l \in LoadIds : loads[l].st \in {"none", "done"}
    /\ \A o \in Clicks : ops[o].pc \in {"idle", "done"}

\* C20: once every load has finished, documentTreeData is the tree of the
\* collection selected in the source dropdown, whatever the order in which
\* the responses of the loads arrived.
C20_TreeOfSelectedSource ==
    AtRest /\ SelectedSource # "" => documentTreeData \in TreesOf(SelectedSource)

\* -------------------------------------------------------------------- C22
\* C22: when a move call of an operation has failed, the click handler shows
\* an error message and starts the refresh of the source tree.
C22_FailureSurfacedAndRefreshed ==
    \A o \in Clicks :
        (\E j \in 1..Len(ops[o].calls) : ops[o].calls[j].outcome = "fail") =>
            /\ ops[o].alert # ""
            /\ loads[RefreshOf(o)].st # "none"

\* -------------------------------------------------------------------- C23
\* C23: a retryFetch call that has completed has returned a response whose
\* status is not 429 or has thrown an error; it never returns without a
\* response.
C23_ResponseOrThrow ==
    Completed =>
        \/ /\ rf.pc = "returned"
           /\ rf.result # Undefined
           /\ rf.result.kind = "response"
           /\ rf.result.status # 429
        \/ /\ rf.pc = "thrown"
           /\ rf.error # NoError

\* -------------------------------------------------------------------- C24
\* C24: at most one request of a retryFetch call is in flight at any moment:
\* the request of an attempt that timed out is no longer outstanding when the
\* next attempt is sent.
C24_OneRequestInFlight ==
    /\ Cardinality(rf.outstanding) <= 1
    /\ \A a \in rf.outstanding : a = rf.attempt

\* -------------------------------------------------------------------- C25
\* C25: the message "Documents moved successfully!" is shown and the refresh
\* of the source tree is started only when every move call of the operation
\* (one for each top-level selected document and each of its descendants) has
\* succeeded; once a call has failed neither happens.
C25_SuccessOnlyAfterAllMoves ==
    \A o \in Clicks :
        /\ (Succeeded(o) \/ loads[RefreshOf(o)].st # "none") =>
               /\ Succeeded(o)
               /\ loads[RefreshOf(o)].st # "none"
               /\ Range(CallIds(o)) =
                      SubtreesOf(ops[o].tree, Range(ops[o].topLevelSelected))
               /\ \A j \in 1..Len(ops[o].calls) : ops[o].calls[j].outcome = "ok"
        /\ (\E j \in 1..Len(ops[o].calls) : ops[o].calls[j].outcome # "ok") =>
               /\ ~Succeeded(o)
               /\ loads[RefreshOf(o)].st = "none"

\* the success message is up and the refresh is under way after the moves of
\* two top-level documents, one of them with a child
C25_Witness ==
    \E o \in Clicks :
        /\ Succeeded(o)
        /\ loads[RefreshOf(o)].st = "sent"
        /\ Len(ops[o].topLevelSelected) = 2
        /\ Len(ops[o].calls) = 3

\* -------------------------------------------------------------------- C26
\* C26: a click with no document checked, or with no destination collection
\* chosen, issues no move call: the handler shows the message that asks for
\* the missing choice and returns.
C26_NothingToMove ==
    \A o \in Clicks :
        Clicked(o) /\ (ops[o].selectedIds = {} \/ ops[o].destCollectionId = "") =>
            /\ ops[o].calls = <<>>
            /\ ops[o].pc = "done"
            /\ ops[o].alert =
                   (IF ops[o].selectedIds = {}
                    THEN "Please select at least one document to move."
                    ELSE "Please select a destination collection.")
            /\ loads[RefreshOf(o)].st = "none"

\* a click with documents checked and no destination collection chosen
C26_Witness ==
    \E o \in Clicks :
        /\ ops[o].pc = "done"
        /\ ops[o].selectedIds # {}
        /\ ops[o].topLevelSelected # <<>>
        /\ ops[o].destCollectionId = ""
        /\ ops[o].calls = <<>>

\* -------------------------------------------------------------------- C28
\* C28: against a service that answers offset and limit with the collections
\* at the 0-based positions offset .. offset + limit - 1 of the N it holds,
\* listCollections returns the N collections, each once and in the order of
\* the service.
C28_ListsAllCollections ==
    /\ api.method = "listCollections"
    /\ api.pc = "returned"
    /\ \A k \in 1..Len(api.received) :
           /\ ArrayPage(api.received[k])
           /\ api.received[k].body.data =
                  PageOf(api.held, api.requests[k], limit)
    => api.value = Value(TRUE, [k \in 1..api.held |-> k])

\* -------------------------------------------------------------------- C29
\* C29: buildTree places every document of a flat list with unique ids once
\* in the forest reachable from the roots it returns, whatever the
\* parentDocumentId values are.
C29_EveryDocumentPlaced ==
    Built =>
        /\ ReachableNodes(build.tree) = Range(FlatIds(build.flatDocs))
        /\ \A d \in Range(FlatIds(build.flatDocs)) :
               Cardinality({i \in 1..Len(build.tree.roots) : build.tree.roots[i] = d})
               + Cardinality({p \in DOMAIN build.tree.children :
                                \E k \in 1..Len(build.tree.children[p]) :
                                    build.tree.children[p][k] = d}) = 1

\* -------------------------------------------------------------------- C21
\* C21: whenever the handler of destinationFolder looks the chosen folder up,
\* documentMap is the index built from the documents of the collection that
\* the destination collection dropdown shows.
C21_IndexOfDestinationCollection ==
    dropdowns.lookup # NoLookup =>
        dropdowns.lookup.index = dropdowns.lookup.collection

\* -------------------------------------------------------------------- C27
\* C27: the move request of a top-level selected document names the
\* destination collection and, as parentDocumentId, the chosen sub-folder
\* when there is one, else the chosen folder when there is one; with neither
\* it carries no parentDocumentId.  When the request succeeds the service
\* holds the document there (at the root of the collection in the last case).
C27_DestinationParent ==
    \A o \in Clicks :
        \A j \in 1..Len(ops[o].calls) :
            LET call == ops[o].calls[j]
                body == payload(call.id, call.collectionId, call.parentDocumentId)
                sub == ops[o].destinationSubFolder
                folder == ops[o].destinationFolder
                parent == IF sub # NoParent THEN <<sub>>
                          ELSE IF folder # NoParent THEN <<folder>>
                          ELSE <<>>
            IN  call.id \in Range(ops[o].topLevelSelected) =>
                    /\ body.id = call.id
                    /\ body.collectionId = ops[o].destCollectionId
                    /\ body.parentDocumentId = parent
                    /\ call.outcome = "ok" =>
                           /\ srvColl[call.id] = ops[o].destCollectionId
                           /\ srvParent[call.id] =
                                  (IF parent = <<>> THEN NoParent ELSE parent[1])

\* a top-level document has been moved under the chosen sub-folder, another
\* document being the chosen folder
C27_Witness ==
    \E o \in Clicks :
        /\ ops[o].destinationSubFolder # NoParent
        /\ ops[o].destinationFolder # NoParent
        /\ Len(ops[o].calls) > 0
        /\ ops[o].calls[1].outcome = "ok"
        /\ ops[o].calls[1].parentDocumentId = ops[o].destinationSubFolder
        /\ srvParent[ops[o].calls[1].id] = ops[o].destinationSubFolder

\* -------------------------------------------------------------------- C30
\* C30: no move call names as destination parent the document it moves or a
\* descendant of that document in the source tree.
C30_NeverUnderItself ==
    \A o \in Clicks :
        \A j \in 1..Len(ops[o].calls) :
            LET call == ops[o].calls[j]
            IN  /\ call.parentDocumentId # call.id
                /\ call.parentDocumentId \notin
                       Reach(ops[o].tree, Range(ops[o].tree.children[call.id]))

\* ----------------------------------------- storageManager vocabulary
ApiReturned == storageManager.gotApi.outcome = "returned"
GetResolved == storageManager.got.outcome = "resolved"

\* -------------------------------------------------------------------- C31
\* C31: the instance a getOutlineAPI call returns carries the outlineUrl and
\* the apiToken saved last; a call that finds a setting missing throws and
\* keeps no instance.
C31_InstanceOfSavedSettings ==
    /\ ApiReturned =>
           /\ storageManager.gotApi.instance.outlineUrl =
                  storageManager.gotApi.saved["outlineUrl"]
           /\ storageManager.gotApi.instance.apiToken =
                  storageManager.gotApi.saved["apiToken"]
    /\ storageManager.gotApi.outcome = "not set" =>
           storageManager.outlineApiInstance = NoInstance

\* -------------------------------------------------------------------- C32
\* C32: a get call for a key resolves with the value that the storage area
\* selected by useSync holds for the key.
C32_GetReadsSelectedArea ==
    GetResolved => storageManager.got.value = storageManager.got.held

====
